---- MODULE Spec2Model ----
(***************************************************************************)
(* Model of the reservation engine of the phone agent:                     *)
(*   app/agent/tools/reservation_tools.py  (check_availability,            *)
(*   create_reservation, cancel_reservation, suggest_alternative_times)    *)
(*   app/services/database.py              (Reservation, Table, init_db)   *)
(*                                                                         *)
(* Every database access of a tool is one atomic step; a tool that reads   *)
(* in one transaction and writes in another (create_reservation,           *)
(* cancel_reservation) is two steps, and the steps of concurrent callers   *)
(* interleave.                                                             *)
(***************************************************************************)
EXTENDS Integers, Sequences, FiniteSets, TLC

VARIABLES tables, reservations, pc, req, ret, active_trackers, conversations, call_metrics, conversation_turns, call_quality

\* the call state of main.py and metrics_tracker.py and the call tables of
\* database.py, which no reservation tool reads or writes
calls == <<active_trackers, conversations, call_metrics, conversation_turns, call_quality>>

vars == <<tables, reservations, pc, req, ret, calls>>

(***************************************************************************)
(* Bounds of the model                                                     *)
(***************************************************************************)
MaxRes == 2

Procs == {"c1", "c2"}

Parties == {3, 7}

Dates == {"d1"}

Times == {<<17, 0>>, <<17, 30>>}

(***************************************************************************)
(* Data model (database.py)                                                *)
(***************************************************************************)
NoTable == 0

NoId == 0

NoDate == "none"

NoName == <<>>

\* An inventory of the kind init_db creates: several tables of one capacity,
\* here with a large table first, a small one, and a retired large one.
DefaultTables ==
  <<[capacity |-> 6, is_active |-> TRUE],
    [capacity |-> 2, is_active |-> TRUE],
    [capacity |-> 4, is_active |-> TRUE],
    [capacity |-> 4, is_active |-> TRUE],
    [capacity |-> 8, is_active |-> FALSE]>>

\* init_db seeds its tables only into an empty table list, so a deployment
\* may hold another inventory: here a room with one table that seats a party
\* of three, a table for two and a retired large one.
SmallRoom ==
  <<[capacity |-> 4, is_active |-> TRUE],
    [capacity |-> 2, is_active |-> TRUE],
    [capacity |-> 8, is_active |-> FALSE]>>

TableIds == 1..Len(tables)

Statuses == {"confirmed", "cancelled", "completed"}

\* names customers book under
Names == { <<"r","a","g","i">> }

\* names callers give when they cancel: exact, with transcription noise,
\* one letter off, a near miss, unrelated
SearchNames ==
  { <<"r","a","g","i">>, <<"R"," ","a","g","."," ","I">>,
    <<"r","a","j","i">>, <<"r","a","y">>, <<"b","o","b">> }

DateFilters == Dates \cup {"d2", NoDate}

\* names found in the book a lookup searches: one capitalised, one a letter
\* off, one unrelated
LookupNames ==
  { <<"R","a","g","i">>, <<"r","a","j","i">>, <<"b","o","b">> }

StoredNames == Names \cup LookupNames

\* mutant of NewReservation: the row is written without its table
NewReservationUnassigned(name, party_size, date, time, table_id) ==
  [name |-> name, party_size |-> party_size, date |-> date, time |-> time,
   status |-> "confirmed", assigned_table_id |-> NoTable]

\* Reservation(name=.., party_size=.., date=.., time=.., status='confirmed',
\*             assigned_table_id=best_table["id"])
NewReservation(name, party_size, date, time, table_id) ==
  [name |-> name, party_size |-> party_size, date |-> date, time |-> time,
   status |-> "confirmed", assigned_table_id |-> table_id]

ResIds == 1..Len(reservations)

(***************************************************************************)
(* Customer Resolver: name cleaning and fuzz.ratio / fuzz.partial_ratio    *)
(* (fuzzywuzzy over difflib.SequenceMatcher), on sequences of characters.  *)
(***************************************************************************)
\* the capital letters the names and transcripts of the model use
Capitals == <<"R", "I", "B", "Y", "W", "H", "D", "N", "S">>

Smalls == <<"r", "i", "b", "y", "w", "h", "d", "n", "s">>

Lower(c) ==
  IF \E i \in 1..Len(Capitals) : Capitals[i] = c
  THEN Smalls[CHOOSE i \in 1..Len(Capitals) : Capitals[i] = c]
  ELSE c

\* mutant of Clean: the spaces are kept
RECURSIVE CleanKeepingSpaces(_)
CleanKeepingSpaces(s) ==
  IF s = <<>> THEN <<>>
  ELSE IF Head(s) = "." THEN CleanKeepingSpaces(Tail(s))
       ELSE <<Lower(Head(s))>> \o CleanKeepingSpaces(Tail(s))

\* name.lower().replace(".", "").replace(" ", "")
RECURSIVE Clean(_)
Clean(s) ==
  IF s = <<>> THEN <<>>
  ELSE IF Head(s) \in {".", " "} THEN Clean(Tail(s))
       ELSE <<Lower(Head(s))>> \o Clean(Tail(s))

\* Python slice s[lo:hi] (0-based, half open, clipped to the string)
Slice(s, lo, hi) ==
  LET h == IF hi > Len(s) THEN Len(s) ELSE hi
  IN  IF lo >= h THEN <<>> ELSE SubSeq(s, lo + 1, h)

\* length of the common run of a[i:ahi] and b[j:bhi] (0-based positions)
RECURSIVE RunLen(_, _, _, _, _, _)
RunLen(a, b, i, j, ahi, bhi) ==
  IF i < ahi /\ j < bhi /\ a[i + 1] = b[j + 1]
  THEN 1 + RunLen(a, b, i + 1, j + 1, ahi, bhi)
  ELSE 0

\* SequenceMatcher.find_longest_match: the longest block, of those the one
\* starting earliest in a, of those the one starting earliest in b
find_longest_match(a, b, alo, ahi, blo, bhi) ==
  LET cand == { <<i, j, RunLen(a, b, i, j, ahi, bhi)>> :
                  i \in alo..(ahi - 1), j \in blo..(bhi - 1) }
      pos  == { c \in cand : c[3] > 0 }
      Better(c, d) == \/ c[3] > d[3]
                      \/ c[3] = d[3] /\ c[1] < d[1]
                      \/ c[3] = d[3] /\ c[1] = d[1] /\ c[2] <= d[2]
  IN  IF pos = {} THEN <<alo, blo, 0>>
      ELSE CHOOSE c \in pos : \A d \in pos : Better(c, d)

\* SequenceMatcher.get_matching_blocks without the terminating sentinel
RECURSIVE matching_blocks(_, _, _, _, _, _)
matching_blocks(a, b, alo, ahi, blo, bhi) ==
  LET m == find_longest_match(a, b, alo, ahi, blo, bhi)
  IN  IF m[3] = 0 THEN {}
      ELSE {m} \cup matching_blocks(a, b, alo, m[1], blo, m[2])
               \cup matching_blocks(a, b, m[1] + m[3], ahi, m[2] + m[3], bhi)

RECURSIVE SumSizes(_)
SumSizes(blocks) ==
  IF blocks = {} THEN 0
  ELSE LET m == CHOOSE x \in blocks : TRUE
       IN  m[3] + SumSizes(blocks \ {m})

Matches(a, b) == SumSizes(matching_blocks(a, b, 0, Len(a), 0, Len(b)))

\* utils.intr(100 * 2.0*M/T): Python round(), halves to the even neighbour
Intr100(m2, t) ==
  LET q == (100 * m2) \div t
      r == (100 * m2) % t
  IN  IF 2 * r > t THEN q + 1
      ELSE IF 2 * r < t THEN q
      ELSE IF q % 2 = 0 THEN q ELSE q + 1

\* SequenceMatcher.ratio() as the pair (2*M, T); 1.0 when both are empty
RatioNum(a, b) == IF Len(a) + Len(b) = 0 THEN 1 ELSE 2 * Matches(a, b)

RatioDen(a, b) == IF Len(a) + Len(b) = 0 THEN 1 ELSE Len(a) + Len(b)

fuzz_ratio(s1, s2) ==
  IF s1 = s2 THEN 100
  ELSE IF Len(s1) = 0 \/ Len(s2) = 0 THEN 0
  ELSE Intr100(RatioNum(s1, s2), RatioDen(s1, s2))

SetMax(S) == CHOOSE x \in S : \A y \in S : x >= y

fuzz_partial_ratio(s1, s2) ==
  IF s1 = s2 THEN 100
  ELSE IF Len(s1) = 0 \/ Len(s2) = 0 THEN 0
  ELSE
    LET shorter == IF Len(s1) <= Len(s2) THEN s1 ELSE s2
        longer  == IF Len(s1) <= Len(s2) THEN s2 ELSE s1
        blocks  == matching_blocks(shorter, longer, 0, Len(shorter), 0, Len(longer))
                     \cup { <<Len(shorter), Len(longer), 0>> }
        Sub(m)  == LET long_start == IF m[2] - m[1] > 0 THEN m[2] - m[1] ELSE 0
                   IN  Slice(longer, long_start, long_start + Len(shorter))
        Num(m)  == RatioNum(shorter, Sub(m))
        Den(m)  == RatioDen(shorter, Sub(m))
    IN  IF \E m \in blocks : 1000 * Num(m) > 995 * Den(m) THEN 100
        ELSE SetMax({ Intr100(Num(m), Den(m)) : m \in blocks })

\* max(fuzz.ratio(clean_search, clean_db), fuzz.partial_ratio(...))
Similarity(search_name, database_name) ==
  LET clean_search == Clean(search_name)
      clean_db     == Clean(database_name)
      r == fuzz_ratio(clean_search, clean_db)
      p == fuzz_partial_ratio(clean_search, clean_db)
  IN  IF r >= p THEN r ELSE p

Threshold == 75

\* Similarity of every (search name, stored name) pair of the model, computed once
SimTable == [s \in SearchNames |-> [d \in StoredNames |-> Similarity(s, d)]]

\* best_match = max(similarity, partial_similarity); return best_match >= threshold
fuzzy_match_name(search_name, database_name, threshold) ==
  SimTable[search_name][database_name] >= threshold

(***************************************************************************)
(* Times of day: "HH:MM" strings as <<hour, minute>>                       *)
(***************************************************************************)
\* datetime.strptime(requested_time, "%H:%M") as minutes since midnight
ParseTime(t) == t[1] * 60 + t[2]

\* (base_time + timedelta(minutes=offset)).strftime("%H:%M")
FormatTime(minutes) ==
  LET n == minutes % 1440 IN <<n \div 60, n % 60>>

time_offsets == <<-90, -60, -30, 30, 60, 90>>

OpenHour == 17

CloseHour == 22

MaxAlternatives == 3

(***************************************************************************)
(* Availability Resolver and Suggester (reservation_tools.py)              *)
(***************************************************************************)
\* mutant of suitable_tables: the is_active filter is forgotten
suitable_tables_any(party_size) ==
  SelectSeq([i \in 1..Len(tables) |-> i],
            LAMBDA id : tables[id].capacity >= party_size)

\* db.query(Table).filter(Table.capacity >= party_size, Table.is_active == True).all()
\* rows in rowid order
suitable_tables(party_size) ==
  SelectSeq([i \in 1..Len(tables) |-> i],
            LAMBDA id : tables[id].capacity >= party_size /\ tables[id].is_active)

\* mutant of booked_table_ids: the status filter is forgotten
booked_table_ids_any_status(date, time) ==
  { reservations[r].assigned_table_id : r \in
      { x \in ResIds : /\ reservations[x].date = date
                       /\ reservations[x].time = time
                       /\ reservations[x].assigned_table_id # NoTable } }

\* {res.assigned_table_id for res in booked_reservations}
booked_table_ids(date, time) ==
  { reservations[r].assigned_table_id : r \in
      { x \in ResIds : /\ reservations[x].date = date
                       /\ reservations[x].time = time
                       /\ reservations[x].status = "confirmed"
                       /\ reservations[x].assigned_table_id # NoTable } }

\* [table for table in suitable_tables if table.id not in booked_table_ids]
available_tables(party_size, date, time) ==
  LET booked == booked_table_ids(date, time)
  IN  SelectSeq(suitable_tables(party_size), LAMBDA id : id \notin booked)

\* the loop of suggest_alternative_times from offset number k on
RECURSIVE suggest_from(_, _, _, _, _)
suggest_from(k, alternatives, date, requested_time, party_size) ==
  IF k > Len(time_offsets) THEN alternatives
  ELSE
    LET alt_time == FormatTime(ParseTime(requested_time) + time_offsets[k])
        alt_hour == alt_time[1]
    IN  IF alt_hour < OpenHour \/ alt_hour >= CloseHour
        THEN suggest_from(k + 1, alternatives, date, requested_time, party_size)
        ELSE IF available_tables(party_size, date, alt_time) # <<>>
        THEN LET acc == Append(alternatives, alt_time)
             IN  IF Len(acc) >= MaxAlternatives THEN acc
                 ELSE suggest_from(k + 1, acc, date, requested_time, party_size)
        ELSE suggest_from(k + 1, alternatives, date, requested_time, party_size)

suggest_alternative_times(date, requested_time, party_size) ==
  suggest_from(1, <<>>, date, requested_time, party_size)

check_availability(party_size, date, time) ==
  IF suitable_tables(party_size) = <<>>
  THEN [available |-> FALSE, reason |-> "no_table_large_enough",
        available_tables |-> <<>>, suggested_alternatives |-> <<>>]
  ELSE LET available == available_tables(party_size, date, time)
       IN  IF available = <<>>
           THEN [available |-> FALSE, reason |-> "fully_booked",
                 available_tables |-> <<>>,
                 suggested_alternatives |->
                   suggest_alternative_times(date, time, party_size)]
           ELSE [available |-> TRUE, reason |-> "",
                 available_tables |-> available,
                 suggested_alternatives |-> <<>>]

(***************************************************************************)
(* Table Allocator: min(available_tables, key=capacity), which keeps the   *)
(* first of several smallest tables                                        *)
(***************************************************************************)
\* mutant of best_table: takes the first available table, as if the list
\* came sorted by capacity
first_table(avail) == avail[1]

best_table(avail) ==
  LET k == CHOOSE i \in 1..Len(avail) :
             /\ \A j \in 1..Len(avail) : tables[avail[i]].capacity <= tables[avail[j]].capacity
             /\ \A j \in 1..(i - 1) : tables[avail[j]].capacity > tables[avail[i]].capacity
  IN  avail[k]

(***************************************************************************)
(* Customer Resolver of cancel_reservation                                 *)
(***************************************************************************)
\* db.query(Reservation).filter(status == 'confirmed') [.filter(date == date)].all()
candidates(date) ==
  SelectSeq([i \in 1..Len(reservations) |-> i],
            LAMBDA id : /\ reservations[id].status = "confirmed"
                        /\ (date # NoDate => reservations[id].date = date))

\* mutant of Improves: the threshold is forgotten
ImprovesWithoutThreshold(similarity, best_score) ==
  similarity > best_score

\* if similarity > best_score and similarity >= 75
Improves(similarity, best_score) ==
  similarity > best_score /\ similarity >= Threshold

\* the loop "for res in candidates" from candidate number k on
RECURSIVE best_match_from(_, _, _, _, _)
best_match_from(k, cands, name, best_match, best_score) ==
  IF k > Len(cands) THEN best_match
  ELSE LET similarity == SimTable[name][reservations[cands[k]].name]
       IN  IF Improves(similarity, best_score)
           THEN best_match_from(k + 1, cands, name, cands[k], similarity)
           ELSE best_match_from(k + 1, cands, name, best_match, best_score)

\* mutant of resolve_target: the lookup by id sees confirmed reservations only
resolve_confirmed_target(reservation_id, name, date) ==
  IF reservation_id # NoId
  THEN IF reservation_id \in ResIds /\ reservations[reservation_id].status = "confirmed"
       THEN reservation_id ELSE NoId
  ELSE best_match_from(1, candidates(date), name, NoId, 0)

\* the reservation cancel_reservation resolves, NoId when there is none
resolve_target(reservation_id, name, date) ==
  IF reservation_id # NoId
  THEN IF reservation_id \in ResIds THEN reservation_id ELSE NoId
  ELSE best_match_from(1, candidates(date), name, NoId, 0)

(***************************************************************************)
(* get_reservations                                                        *)
(***************************************************************************)
\* mutant of get_reservations: only the best match is returned
get_best_reservation(date, name) ==
  IF name # NoName
  THEN LET best == best_match_from(1, candidates(date), name, NoId, 0)
       IN  IF best = NoId THEN <<>> ELSE <<best>>
  ELSE candidates(date)

\* the confirmed reservations (of the date, if one is given), in query
\* order; with a name, those fuzzy_match_name accepts at threshold 75
get_reservations(date, name) ==
  IF name # NoName
  THEN SelectSeq(candidates(date),
                 LAMBDA id : fuzzy_match_name(name, reservations[id].name, 75))
  ELSE candidates(date)

(***************************************************************************)
(* Call state: the dictionaries of main.py and metrics_tracker.py, the     *)
(* call tables of database.py.  A dictionary is a function whose domain is *)
(* the set of its keys.                                                    *)
(***************************************************************************)
\* the most user turns a call makes
MaxTurns == 1

\* the most calls whose metrics are saved
MaxCalls == 1

\* Twilio's form of a webhook request: the number the call comes from and
\* the call id, which a request may lack
NoCallSid == "absent"

Forms ==
  { [From |-> "+1", CallSid |-> "CA1"], [From |-> "+1", CallSid |-> NoCallSid],
    [From |-> "+2", CallSid |-> NoCallSid] }

\* call_sid = form_data.get("CallSid", "unknown")
call_sid_of(form) ==
  IF form.CallSid = NoCallSid THEN "unknown" ELSE form.CallSid

\* d[k] = v
DictSet(d, k, v) ==
  [x \in (DOMAIN d) \cup {k} |-> IF x = k THEN v ELSE d[x]]

\* del d[k]
DictDel(d, k) == [x \in (DOMAIN d) \ {k} |-> d[x]]

\* no call in progress, no call on record
NoCalls ==
  /\ active_trackers = <<>>
  /\ conversations = <<>>
  /\ call_metrics = <<>>
  /\ conversation_turns = <<>>
  /\ call_quality = <<>>

(***************************************************************************)
(* Text: a transcript is a sequence of characters                          *)
(***************************************************************************)
\* keyword in text
Contains(text, keyword) ==
  \E i \in 1..(Len(text) - Len(keyword) + 1) :
    SubSeq(text, i, i + Len(keyword) - 1) = keyword

\* text.lower()
LowerText(text) == [i \in 1..Len(text) |-> Lower(text[i])]

\* any(keyword in text.lower() for keyword in keywords); also the loop over
\* the keywords that stops at the first one found
ContainsAny(text, keywords) ==
  \E keyword \in keywords : Contains(LowerText(text), keyword)

\* clarification_phrases of add_user_turn
clarification_phrases ==
  { <<"s","o","r","r","y">>,
    <<"p","a","r","d","o","n">>,
    <<"w","h","a","t">>,
    <<"r","e","p","e","a","t">>,
    <<"d","i","d","n","'","t"," ","c","a","t","c","h">>,
    <<"c","a","n"," ","y","o","u"," ","s","a","y">>,
    <<"s","p","e","a","k"," ","u","p">>,
    <<"c","o","m","e"," ","a","g","a","i","n">> }

\* correction_keywords of calculate_accuracy_score
correction_keywords ==
  { <<"n","o">>,
    <<"a","c","t","u","a","l","l","y">>,
    <<"i"," ","s","a","i","d">>,
    <<"t","h","a","t","'","s"," ","w","r","o","n","g">>,
    <<"y","o","u"," ","m","e","a","n">>,
    <<"n","o","t">>,
    <<"c","o","r","r","e","c","t","i","o","n">>,
    <<"m","i","s","t","a","k","e">>,
    <<"i"," ","m","e","a","n","t">>,
    <<"t","h","a","t","'","s"," ","n","o","t"," ","r","i","g","h","t">> }

\* confirmation_keywords of calculate_accuracy_score
confirmation_keywords ==
  { <<"y","e","s"," ","t","h","a","t","'","s"," ","r","i","g","h","t">>,
    <<"c","o","r","r","e","c","t">>,
    <<"e","x","a","c","t","l","y">>,
    <<"y","e","s">>,
    <<"p","e","r","f","e","c","t">>,
    <<"t","h","a","t","'","s"," ","i","t">> }

\* what the agent says first, and what it answers
Greeting == <<"H","e","l","l","o">>

ReplyText == <<"D","o","n","e">>

\* what callers say: a confirmation, a request to repeat
Speeches == { <<"Y","e","s">>, <<"W","h","a","t">> }

(***************************************************************************)
(* Python floats (IEEE-754 doubles).  The scores of the model are whole    *)
(* numbers; every double the overall score passes through is a whole       *)
(* number of units of 2^-56, held as three limbs of 22 bits, lowest first. *)
(***************************************************************************)
Limb == 2^22

\* float(n) of a whole number n: n * 2^56 units
FloatOf(n) == <<0, 0, n * 2^12>>

\* the limbs brought back below 2^22, the carries moved up
Carry(x) ==
  LET c1 == x[1] \div Limb
      c2 == (x[2] + c1) \div Limb
  IN  <<x[1] % Limb, (x[2] + c1) % Limb, x[3] + c2>>

BitLen(n) ==
  IF n = 0 THEN 0 ELSE CHOOSE b \in 1..30 : 2^(b - 1) <= n /\ n < 2^b

Bits(x) ==
  IF x[3] > 0 THEN 44 + BitLen(x[3])
  ELSE IF x[2] > 0 THEN 22 + BitLen(x[2]) ELSE BitLen(x[1])

\* the result of a double operation: the exact result rounded to 53
\* significant bits, to nearest, ties to even
Round53(x) ==
  LET k == Bits(x) - 53
  IN  IF k <= 0 THEN x
      ELSE LET r == x[1] % 2^k
               q == x[1] \div 2^k
               up == r > 2^(k - 1) \/ (r = 2^(k - 1) /\ q % 2 = 1)
           IN  Carry(<<x[1] - r + (IF up THEN 2^k ELSE 0), x[2], x[3]>>)

\* score * weight, the score a whole number from 0 to 255
FMul(score, weight) ==
  Round53(Carry(<<weight[1] * score, weight[2] * score, weight[3] * score>>))

\* x + y
FAdd(x, y) == Round53(Carry(<<x[1] + y[1], x[2] + y[2], x[3] + y[3]>>))

\* x >= y
FGe(x, y) ==
  \/ x[3] > y[3]
  \/ x[3] = y[3] /\ x[2] > y[2]
  \/ x[3] = y[3] /\ x[2] = y[2] /\ x[1] >= y[1]

\* the doubles of the weights: 0.30 = 0x1.3333333333333p-2, 0.25 = 2^-2,
\* 0.20 = 0x1.999999999999ap-3, 0.15 = 0x1.3333333333333p-3,
\* 0.10 = 0x1.999999999999ap-4
weights ==
  [accuracy |-> <<838860, 3355443, 1228>>,
   helpfulness |-> <<0, 0, 1024>>,
   efficiency |-> <<3355444, 838860, 819>>,
   naturalness |-> <<2516582, 1677721, 614>>,
   professionalism |-> <<1677722, 2516582, 409>>]

(***************************************************************************)
(* Quality analyzer (quality_analyzer.py) and the scoring of the synthetic *)
(* data generator (generate_synthetic_data.py)                             *)
(***************************************************************************)
\* max(0.0, min(100.0, score))
Clamp(score) == IF score < 0 THEN 0 ELSE IF score > 100 THEN 100 ELSE score

\* the durations of the model are multiples of ten seconds and the latencies
\* multiples of 100 ms, so the two divisions leave no remainder
calculate_efficiency_score(metrics) ==
  LET turn_penalty ==
        IF metrics.user_turns > 5 THEN (metrics.user_turns - 5) * 5 ELSE 0
      duration_penalty ==
        IF metrics.total_duration_sec # 0 /\ metrics.total_duration_sec > 120
        THEN (metrics.total_duration_sec - 120) \div 10 ELSE 0
      clarification_penalty == metrics.clarifications_needed * 10
      latency_penalty ==
        IF metrics.total_latency_ms # 0 /\ metrics.total_latency_ms > 3000
        THEN (metrics.total_latency_ms - 3000) \div 100 ELSE 0
  IN  Clamp(100 - turn_penalty - duration_penalty - clarification_penalty
              - latency_penalty)

\* The functions that query the database take the table they query, as it
\* is when they run, as their first argument.

\* db.query(ConversationTurn).filter(call_sid == ..).order_by(turn_number):
\* the rows of a call are written in the order of their turn numbers
turns_of(turn_rows, call_sid) ==
  SelectSeq(turn_rows, LAMBDA t : t.call_sid = call_sid)

user_turns_of(turn_rows, call_sid) ==
  SelectSeq(turn_rows, LAMBDA t : t.call_sid = call_sid /\ t.speaker = "user")

\* the number of turns with one of the keywords: a turn counts once
Count(turns, keywords) ==
  Cardinality({ i \in 1..Len(turns) : ContainsAny(turns[i].transcript, keywords) })

calculate_accuracy_score(turn_rows, call_sid) ==
  LET turns == user_turns_of(turn_rows, call_sid)
      corrections == Count(turns, correction_keywords)
      confirmations == Count(turns, confirmation_keywords)
      bonus == IF confirmations * 5 < 20 THEN confirmations * 5 ELSE 20
  IN  IF turns = <<>> THEN 75
      ELSE Clamp(100 - corrections * 15 + bonus)

\* "if metrics.total_duration_sec and ..." is false of a duration of 0
calculate_helpfulness_score(metrics) ==
  IF metrics.booking_completed THEN 100
  ELSE IF metrics.user_hung_up_early THEN 0
  ELSE IF metrics.total_duration_sec # 0 /\ metrics.total_duration_sec < 30 THEN 20
  ELSE IF metrics.intent_fulfilled THEN 60
  ELSE 50

\* what the call of the scoring collaborator comes to: it raises, its reply
\* is not JSON, the JSON has no score, the JSON has a score
ReplyKinds == {"raises", "unparsable", "no_score", "score"}

\* mutant of calculate_naturalness_score: an error scores 0
calculate_naturalness_score_zero_on_error(turn_rows, call_sid, api_key, reply) ==
  IF turns_of(turn_rows, call_sid) = <<>> THEN 75
  ELSE IF ~api_key THEN 75
  ELSE IF reply.kind = "score" THEN reply.score
  ELSE IF reply.kind = "no_score" THEN 75
  ELSE 0

\* api_key: whether ANTHROPIC_API_KEY is set; the except branch and the
\* default of result.get("score", 75.0) both give 75
calculate_naturalness_score(turn_rows, call_sid, api_key, reply) ==
  IF turns_of(turn_rows, call_sid) = <<>> THEN 75
  ELSE IF ~api_key THEN 75
  ELSE IF reply.kind = "score" THEN reply.score
  ELSE 75

calculate_professionalism_score(turn_rows, call_sid, api_key, reply) ==
  IF turns_of(turn_rows, call_sid) = <<>> THEN 75
  ELSE IF ~api_key THEN 75
  ELSE IF reply.kind = "score" THEN reply.score
  ELSE 75

\* the tier of an overall score, of the analyzer and of the generator
get_quality_tier(overall) ==
  IF FGe(overall, FloatOf(90)) THEN "Excellent"
  ELSE IF FGe(overall, FloatOf(75)) THEN "Great"
  ELSE IF FGe(overall, FloatOf(60)) THEN "Good"
  ELSE IF FGe(overall, FloatOf(40)) THEN "Fair"
  ELSE "Poor"

\* sum(dimensions[k] * weights[k] for k in weights): the products are added
\* left to right in the order of the weights dictionary
calculate_overall_score(dimensions) ==
  LET overall ==
        FAdd(FAdd(FAdd(FAdd(FMul(dimensions.accuracy, weights.accuracy),
                            FMul(dimensions.helpfulness, weights.helpfulness)),
                       FMul(dimensions.efficiency, weights.efficiency)),
                  FMul(dimensions.naturalness, weights.naturalness)),
             FMul(dimensions.professionalism, weights.professionalism))
  IN  [overall |-> overall, tier |-> get_quality_tier(overall)]

\* calculate_overall_score of generate_synthetic_data.py: efficiency first
synthetic_overall_score(scores) ==
  FAdd(FAdd(FAdd(FAdd(FMul(scores.efficiency, weights.efficiency),
                      FMul(scores.accuracy, weights.accuracy)),
                 FMul(scores.helpfulness, weights.helpfulness)),
            FMul(scores.naturalness, weights.naturalness)),
       FMul(scores.professionalism, weights.professionalism))

\* db.query(CallMetrics).filter(CallMetrics.call_sid == call_sid).first()
HasMetrics(metric_rows, call_sid) ==
  \E i \in 1..Len(metric_rows) : metric_rows[i].call_sid = call_sid

metrics_of(metric_rows, call_sid) ==
  metric_rows[CHOOSE i \in 1..Len(metric_rows) :
                /\ metric_rows[i].call_sid = call_sid
                /\ \A j \in 1..(i - 1) : metric_rows[j].call_sid # call_sid]

\* the five scores of analyze_call_quality; api_key and the two replies are
\* what the two calls of the scoring collaborator meet
dimensions_of(metric_rows, turn_rows, call_sid, use_ai, api_key, naturalness_reply, professionalism_reply) ==
  [efficiency |-> calculate_efficiency_score(metrics_of(metric_rows, call_sid)),
   accuracy |-> calculate_accuracy_score(turn_rows, call_sid),
   helpfulness |-> calculate_helpfulness_score(metrics_of(metric_rows, call_sid)),
   naturalness |->
     IF use_ai
     THEN calculate_naturalness_score(turn_rows, call_sid, api_key, naturalness_reply)
     ELSE 75,
   professionalism |->
     IF use_ai
     THEN calculate_professionalism_score(turn_rows, call_sid, api_key,
                                          professionalism_reply)
     ELSE 75]

\* CallQuality(call_sid=.., efficiency_score=.., .., analyzed_at=utcnow())
QualityRow(call_sid, dimensions, analyzed_at) ==
  LET scored == calculate_overall_score(dimensions)
  IN  [call_sid |-> call_sid,
       efficiency_score |-> dimensions.efficiency,
       accuracy_score |-> dimensions.accuracy,
       helpfulness_score |-> dimensions.helpfulness,
       naturalness_score |-> dimensions.naturalness,
       professionalism_score |-> dimensions.professionalism,
       overall_score |-> scored.overall,
       quality_tier |-> scored.tier,
       analyzed_at |-> analyzed_at]

HasQuality(call_sid) == \E i \in 1..Len(call_quality) : call_quality[i].call_sid = call_sid

\* db.query(CallQuality).filter(CallQuality.call_sid == call_sid).first()
quality_index(call_sid) ==
  CHOOSE i \in 1..Len(call_quality) :
    /\ call_quality[i].call_sid = call_sid
    /\ \A j \in 1..(i - 1) : call_quality[j].call_sid # call_sid

\* datetime.utcnow() of an analysis: later than the time of every analysis
\* on record, the times whole numbers
utcnow ==
  LET times == { call_quality[i].analyzed_at : i \in 1..Len(call_quality) }
  IN  IF times = {} THEN 1
      ELSE 1 + (CHOOSE t \in times : \A u \in times : u <= t)

\* mutant of save_quality: the record is added whether or not one exists
save_quality_adding(call_sid, dimensions, analyzed_at) ==
  Append(call_quality, QualityRow(call_sid, dimensions, analyzed_at))

\* the record of the call is updated if there is one, added otherwise
save_quality(call_sid, dimensions, analyzed_at) ==
  IF HasQuality(call_sid)
  THEN [call_quality EXCEPT ![quality_index(call_sid)] =
          QualityRow(call_sid, dimensions, analyzed_at)]
  ELSE Append(call_quality, QualityRow(call_sid, dimensions, analyzed_at))

(***************************************************************************)
(* Callers: position, locals between the two transactions, returned value  *)
(***************************************************************************)
\* k, alternatives: the locals of the loop of suggest_alternative_times;
\* examined: the candidate times whose availability that loop has queried
NoReq ==
  [op |-> "none", name |-> NoName, party_size |-> 0, date |-> NoDate,
   time |-> <<0, 0>>, target |-> NoId,
   k |-> 0, alternatives |-> <<>>, examined |-> <<>>]

\* args: the arguments of a fuzzy_match_name or get_reservations call;
\* found: the reservations get_reservations returns
NoRet ==
  [op |-> "none", success |-> FALSE, reason |-> "none", exc |-> "", id |-> NoId,
   available_tables |-> <<>>, suggested_alternatives |-> <<>>,
   args |-> <<>>, found |-> <<>>]

\* mutant of Failure: the alternatives of the availability check are dropped
FailureWithoutAlternatives(op, reason, id, alternatives) ==
  [op |-> op, success |-> FALSE, reason |-> reason, exc |-> "", id |-> id,
   available_tables |-> <<>>, suggested_alternatives |-> <<>>,
   args |-> <<>>, found |-> <<>>]

\* {"success": False, "error": reason, "suggested_alternatives": [...]}
Failure(op, reason, id, alternatives) ==
  [op |-> op, success |-> FALSE, reason |-> reason, exc |-> "", id |-> id,
   available_tables |-> <<>>, suggested_alternatives |-> alternatives,
   args |-> <<>>, found |-> <<>>]

\* the except branch: {"success": False, "error": f"Failed to ...: {str(e)}"}
Raised(op, e) ==
  [op |-> op, success |-> FALSE, reason |-> "error", exc |-> e, id |-> NoId,
   available_tables |-> <<>>, suggested_alternatives |-> <<>>,
   args |-> <<>>, found |-> <<>>]

\* {"success": True, ...} / {"available": True, "available_tables": [...]}
Success(op, id, tbls) ==
  [op |-> op, success |-> TRUE, reason |-> "", exc |-> "", id |-> id,
   available_tables |-> tbls, suggested_alternatives |-> <<>>,
   args |-> <<>>, found |-> <<>>]

\* a reservation found in the book when the service starts: a past one the
\* staff marked completed (the third status of Reservation.status)
CompletedRow ==
  [name |-> <<"r","a","g","i">>, party_size |-> 3, date |-> "d1",
   time |-> <<17, 0>>, status |-> "completed", assigned_table_id |-> 1]

Init ==
  /\ tables \in {DefaultTables, SmallRoom}
  /\ reservations \in { <<>>, <<CompletedRow>> }
  /\ pc = [p \in Procs |-> "idle"]
  /\ req = [p \in Procs |-> NoReq]
  /\ ret = [p \in Procs |-> NoRet]
  /\ NoCalls

Pending == Cardinality({ q \in Procs : pc[q] = "create_commit" })

Done(p, result) ==
  /\ pc' = [pc EXCEPT ![p] = "done"]
  /\ req' = [req EXCEPT ![p] = NoReq]
  /\ ret' = [ret EXCEPT ![p] = result]

(***************************************************************************)
(* check_availability called as a tool                                     *)
(***************************************************************************)
CheckAvailability(p) ==
  /\ pc[p] = "idle"
  /\ \E party_size \in Parties, date \in Dates, time \in Times :
       LET a == check_availability(party_size, date, time)
       IN  Done(p, IF a.available
                   THEN Success("check", NoId, a.available_tables)
                   ELSE Failure("check", a.reason, NoId, a.suggested_alternatives))
  /\ UNCHANGED <<tables, reservations, calls>>

(***************************************************************************)
(* create_reservation: availability check, then insert and commit          *)
(***************************************************************************)
\* the availability (line 177) allows the reservation to be created
MayCreate(a) == a.available

\* datetime.strptime(requested_time, "%H:%M") accepts the time
WellFormedTime(time) ==
  time[1] \in 0..23 /\ time[2] \in 0..59

\* lines 176-190 for given arguments: check availability, return the
\* failure or pick the table; on a fully booked slot line 390 parses the
\* time and raises ValueError for one that is not HH:MM, which the except
\* branch of create_reservation turns into a failure
CreateCheckWith(p, name, party_size, date, time) ==
  IF /\ ~WellFormedTime(time)
     /\ suitable_tables(party_size) # <<>>
     /\ available_tables(party_size, date, time) = <<>>
  THEN Done(p, Raised("create", "strptime"))
  ELSE LET a == check_availability(party_size, date, time)
       IN  IF ~MayCreate(a)
           THEN Done(p, Failure("create", a.reason, NoId, a.suggested_alternatives))
           ELSE /\ pc' = [pc EXCEPT ![p] = "create_commit"]
                /\ req' = [req EXCEPT ![p] =
                             [NoReq EXCEPT !.op = "create", !.name = name,
                                !.party_size = party_size, !.date = date, !.time = time,
                                !.target = best_table(a.available_tables)]]
                /\ ret' = ret

\* create_reservation called with well-formed arguments
CreateCheck(p) ==
  /\ pc[p] = "idle"
  /\ Len(reservations) + Pending < MaxRes
  /\ \E name \in Names, party_size \in Parties, date \in Dates, time \in Times :
       CreateCheckWith(p, name, party_size, date, time)
  /\ UNCHANGED <<tables, reservations, calls>>

\* a query of check_availability raises: except branch, rollback, failure
CreateCheckError(p) ==
  /\ pc[p] = "idle"
  /\ Done(p, Raised("create", "query"))
  /\ UNCHANGED <<tables, reservations, calls>>

\* db.add(reservation); db.commit()
Insert(r) ==
  Append(reservations,
         NewReservation(r.name, r.party_size, r.date, r.time, r.target))

\* lines 193-232: db.add, db.commit, db.refresh, return success
CreateCommit(p) ==
  /\ pc[p] = "create_commit"
  /\ reservations' = Insert(req[p])
  /\ Done(p, Success("create", Len(reservations) + 1, <<>>))
  /\ UNCHANGED <<tables, calls>>

\* db.commit() raises: db.rollback(), failure, nothing written
CreateCommitError(p) ==
  /\ pc[p] = "create_commit"
  /\ Done(p, Raised("create", "commit"))
  /\ UNCHANGED <<tables, reservations, calls>>

\* db.commit() succeeds, db.refresh(reservation) (line 206) raises: the
\* except branch rolls back an empty transaction and returns the failure
CreateRefreshError(p) ==
  /\ pc[p] = "create_commit"
  /\ reservations' = Insert(req[p])
  /\ Done(p, Raised("create", "refresh"))
  /\ UNCHANGED <<tables, calls>>

(***************************************************************************)
(* cancel_reservation: resolve the target, then update and commit          *)
(***************************************************************************)
CancelArgs ==
  { <<id, NoName, NoDate>> : id \in 1..MaxRes }
    \cup { <<NoId, name, date>> : name \in SearchNames, date \in DateFilters }
    \cup { <<NoId, NoName, NoDate>> }

CancelOp(args) == IF args[1] # NoId THEN "cancel_id" ELSE "cancel_name"

\* lines 298-353: look the reservation up by id or by name
CancelResolve(p) ==
  /\ pc[p] = "idle"
  /\ \E args \in CancelArgs :
       LET target == resolve_target(args[1], args[2], args[3])
       IN  IF args[1] = NoId /\ args[2] = NoName
           THEN Done(p, Failure("cancel", "need_id_or_name", NoId, <<>>))
           ELSE IF target = NoId
           THEN Done(p, Failure(CancelOp(args), "not_found", args[1], <<>>))
           ELSE /\ pc' = [pc EXCEPT ![p] = "cancel_commit"]
                /\ req' = [req EXCEPT ![p] =
                             [NoReq EXCEPT !.op = CancelOp(args), !.name = args[2],
                                           !.date = args[3], !.target = target]]
                /\ ret' = ret
  /\ UNCHANGED <<tables, reservations, calls>>

\* the lookup query raises: except branch, rollback, failure
CancelResolveError(p) ==
  /\ pc[p] = "idle"
  /\ \E op \in {"cancel_id", "cancel_name"} : Done(p, Raised(op, "query"))
  /\ UNCHANGED <<tables, reservations, calls>>

\* reservation.status = 'cancelled'; db.commit()
SetCancelled(target) ==
  [reservations EXCEPT ![target].status = "cancelled"]

\* lines 356-372: set the status, db.commit, return success
CancelCommit(p) ==
  /\ pc[p] = "cancel_commit"
  /\ reservations' = SetCancelled(req[p].target)
  /\ Done(p, Success(req[p].op, req[p].target, <<>>))
  /\ UNCHANGED <<tables, calls>>

\* db.commit() raises: db.rollback(), failure, nothing written
CancelCommitError(p) ==
  /\ pc[p] = "cancel_commit"
  /\ Done(p, Raised(req[p].op, "commit"))
  /\ UNCHANGED <<tables, reservations, calls>>

\* db.commit() succeeds, the reload of the expired reservation (line 360)
\* raises: the except branch returns the failure
CancelReloadError(p) ==
  /\ pc[p] = "cancel_commit"
  /\ reservations' = SetCancelled(req[p].target)
  /\ Done(p, Raised(req[p].op, "reload"))
  /\ UNCHANGED <<tables, calls>>

\* the caller takes the result (main.py: result = func(**tool_input))
Return(p) ==
  /\ pc[p] = "done"
  /\ pc' = [pc EXCEPT ![p] = "idle"]
  /\ req' = [req EXCEPT ![p] = NoReq]
  /\ ret' = [ret EXCEPT ![p] = NoRet]
  /\ UNCHANGED <<tables, reservations, calls>>

Next ==
  \E p \in Procs :
    \/ CheckAvailability(p)
    \/ CreateCheck(p)
    \/ CreateCheckError(p)
    \/ CreateCommit(p)
    \/ CreateCommitError(p)
    \/ CreateRefreshError(p)
    \/ CancelResolve(p)
    \/ CancelResolveError(p)
    \/ CancelCommit(p)
    \/ CancelCommitError(p)
    \/ CancelReloadError(p)
    \/ Return(p)

Spec == Init /\ [][Next]_vars

(***************************************************************************)
(* check_availability step by step: its own queries (lines 93-120) in one  *)
(* step, then one step for each turn of the loop of                        *)
(* suggest_alternative_times, which opens a session of its own for every   *)
(* candidate time, so that other callers' commits fall between the turns.  *)
(* The book the service starts with holds evening reservations of one      *)
(* room, and callers ask for times across the evening.                     *)
(***************************************************************************)
\* requested times: opening time, mid-evening, after closing
SuggestTimes == {<<17, 0>>, <<19, 0>>, <<22, 30>>}

\* times of the reservations in the starting book
BookTimes == {<<17, 0>>, <<17, 30>>, <<18, 0>>, <<19, 0>>, <<21, 0>>, <<22, 30>>}

\* reservations of parties of three at table 1, confirmed or cancelled
BookRows ==
  { [name |-> <<"r","a","g","i">>, party_size |-> 3, date |-> "d1",
     time |-> t, status |-> st, assigned_table_id |-> 1] :
      t \in BookTimes, st \in {"confirmed", "cancelled"} }

\* books of at most MaxRes reservations, by ascending time
SuggestBooks ==
  UNION { { b \in [1..n -> BookRows] :
              \A i \in 1..(n - 1) : ParseTime(b[i].time) < ParseTime(b[i + 1].time) } :
          n \in 0..MaxRes }

SuggestInit ==
  /\ tables = SmallRoom
  /\ reservations \in SuggestBooks
  /\ pc = [p \in Procs |-> "idle"]
  /\ req = [p \in Procs |-> NoReq]
  /\ ret = [p \in Procs |-> NoRet]
  /\ NoCalls

\* lines 93-120: the two queries of check_availability and its first two
\* returns; on a fully booked slot the call enters the loop of the Suggester
CheckStart(p) ==
  /\ pc[p] = "idle"
  /\ \E party_size \in Parties, date \in Dates, time \in SuggestTimes :
       IF suitable_tables(party_size) = <<>>
       THEN Done(p, Failure("check", "no_table_large_enough", NoId, <<>>))
       ELSE LET available == available_tables(party_size, date, time)
            IN  IF available # <<>>
                THEN Done(p, Success("check", NoId, available))
                ELSE /\ pc' = [pc EXCEPT ![p] = "suggest"]
                     /\ req' = [req EXCEPT ![p] =
                                  [NoReq EXCEPT !.op = "check", !.party_size = party_size,
                                     !.date = date, !.time = time, !.k = 1]]
                     /\ ret' = ret
  /\ UNCHANGED <<tables, reservations, calls>>

\* mutant of SuggestStep: the turn holds the candidate slot with a
\* reservation of its own
SuggestStepHolding(p) ==
  /\ pc[p] = "suggest"
  /\ req[p].k <= Len(time_offsets)
  /\ req' = [req EXCEPT ![p].k = req[p].k + 1]
  /\ reservations' =
       Append(reservations,
              NewReservation(<<"r","a","g","i">>, req[p].party_size, req[p].date,
                             FormatTime(ParseTime(req[p].time) + time_offsets[req[p].k]), 1))
  /\ UNCHANGED <<tables, pc, ret, calls>>

\* mutant of SuggestStep: the turn does not look at the hour of the candidate
SuggestStepAnyHour(p) ==
  /\ pc[p] = "suggest"
  /\ req[p].k <= Len(time_offsets)
  /\ LET r == req[p]
         alt_time == FormatTime(ParseTime(r.time) + time_offsets[r.k])
         available == available_tables(r.party_size, r.date, alt_time)
         acc == IF available # <<>> THEN Append(r.alternatives, alt_time)
                ELSE r.alternatives
     IN  req' = [req EXCEPT ![p] =
                   [r EXCEPT !.k = IF available # <<>> /\ Len(acc) >= MaxAlternatives
                                   THEN Len(time_offsets) + 1 ELSE r.k + 1,
                             !.alternatives = acc,
                             !.examined = Append(r.examined, alt_time)]]
  /\ UNCHANGED <<tables, reservations, pc, ret, calls>>

\* mutant of SuggestStep: the loop does not stop at three alternatives
SuggestStepWithoutBreak(p) ==
  /\ pc[p] = "suggest"
  /\ req[p].k <= Len(time_offsets)
  /\ LET r == req[p]
         alt_time == FormatTime(ParseTime(r.time) + time_offsets[r.k])
         alt_hour == alt_time[1]
     IN  IF alt_hour < OpenHour \/ alt_hour >= CloseHour
         THEN req' = [req EXCEPT ![p].k = r.k + 1]
         ELSE LET available == available_tables(r.party_size, r.date, alt_time)
                  acc == IF available # <<>> THEN Append(r.alternatives, alt_time)
                         ELSE r.alternatives
              IN  req' = [req EXCEPT ![p] =
                            [r EXCEPT !.k = r.k + 1,
                                      !.alternatives = acc,
                                      !.examined = Append(r.examined, alt_time)]]
  /\ UNCHANGED <<tables, reservations, pc, ret, calls>>

\* the loop body with a test that differs from the Availability Resolver's:
\* any active table that is free at the candidate time, whatever its capacity
SuggestStepAnyTable(p) ==
  /\ pc[p] = "suggest"
  /\ req[p].k <= Len(time_offsets)
  /\ LET r == req[p]
         alt_time == FormatTime(ParseTime(r.time) + time_offsets[r.k])
         alt_hour == alt_time[1]
     IN  IF alt_hour < OpenHour \/ alt_hour >= CloseHour
         THEN req' = [req EXCEPT ![p].k = r.k + 1]
         ELSE LET available == available_tables(1, r.date, alt_time)
                  acc == IF available # <<>> THEN Append(r.alternatives, alt_time)
                         ELSE r.alternatives
              IN  req' = [req EXCEPT ![p] =
                            [r EXCEPT !.k = IF available # <<>> /\ Len(acc) >= MaxAlternatives
                                            THEN Len(time_offsets) + 1 ELSE r.k + 1,
                                      !.alternatives = acc,
                                      !.examined = Append(r.examined, alt_time)]]
  /\ UNCHANGED <<tables, reservations, pc, ret, calls>>

\* lines 395-427: one turn of "for offset in time_offsets"
SuggestStep(p) ==
  /\ pc[p] = "suggest"
  /\ req[p].k <= Len(time_offsets)
  /\ LET r == req[p]
         alt_time == FormatTime(ParseTime(r.time) + time_offsets[r.k])
         alt_hour == alt_time[1]
     IN  IF alt_hour < OpenHour \/ alt_hour >= CloseHour
         THEN req' = [req EXCEPT ![p].k = r.k + 1]
         ELSE LET available == available_tables(r.party_size, r.date, alt_time)
                  acc == IF available # <<>> THEN Append(r.alternatives, alt_time)
                         ELSE r.alternatives
              IN  req' = [req EXCEPT ![p] =
                            [r EXCEPT !.k = IF available # <<>> /\ Len(acc) >= MaxAlternatives
                                            THEN Len(time_offsets) + 1 ELSE r.k + 1,
                                      !.alternatives = acc,
                                      !.examined = Append(r.examined, alt_time)]]
  /\ UNCHANGED <<tables, reservations, pc, ret, calls>>

\* line 429 and lines 122-131: the loop is over, the fully-booked answer
SuggestReturn(p) ==
  /\ pc[p] = "suggest"
  /\ req[p].k > Len(time_offsets)
  /\ Done(p, Failure("check", "fully_booked", NoId, req[p].alternatives))
  /\ UNCHANGED <<tables, reservations, calls>>

\* the caller who asks for availability, and the one who books and cancels
\* meanwhile
Asker == "c1"

Booker == "c2"

SuggestNext ==
  \/ CheckStart(Asker)
  \/ SuggestStep(Asker)
  \/ SuggestReturn(Asker)
  \/ Return(Asker)
  \/ CreateCheck(Booker)
  \/ CreateCommit(Booker)
  \/ CancelResolve(Booker)
  \/ CancelCommit(Booker)
  \/ Return(Booker)

SuggestSpec == SuggestInit /\ [][SuggestNext]_vars

(***************************************************************************)
(* Lookups: get_reservations and fuzzy_match_name, which read only, called *)
(* on books that hold reservations of every status under several names.    *)
(***************************************************************************)
LookupRows ==
  { [name |-> n, party_size |-> 3, date |-> d, time |-> <<17, 0>>,
     status |-> st, assigned_table_id |-> 1] :
      n \in LookupNames, d \in {"d1", "d2"}, st \in Statuses }

\* the tables that seat three, for the reservations of a book in turn
LookupTables == <<1, 3, 4>>

\* books of at most MaxRes reservations, each at a table of its own
LookupBooks ==
  UNION { { [i \in 1..n |-> [b[i] EXCEPT !.assigned_table_id = LookupTables[i]]] :
              b \in [1..n -> LookupRows] } :
          n \in 0..MaxRes }

LookupInit ==
  /\ tables = DefaultTables
  /\ reservations \in LookupBooks
  /\ pc = [p \in Procs |-> "idle"]
  /\ req = [p \in Procs |-> NoReq]
  /\ ret = [p \in Procs |-> NoRet]
  /\ NoCalls

\* thresholds fuzzy_match_name is called with: the default, and one above
MatchThresholds == {75, 76}

\* get_reservations(date, name), lines 257-277
GetReservations(p) ==
  /\ pc[p] = "idle"
  /\ \E date \in DateFilters, name \in SearchNames \cup {NoName} :
       Done(p, [Success("get", NoId, <<>>) EXCEPT
                  !.args = <<date, name>>,
                  !.found = get_reservations(date, name)])
  /\ UNCHANGED <<tables, reservations, calls>>

\* fuzzy_match_name(search_name, database_name, threshold), lines 18-48
FuzzyMatchName(p) ==
  /\ pc[p] = "idle"
  /\ \E search_name \in SearchNames, database_name \in StoredNames,
        threshold \in MatchThresholds :
       Done(p, [NoRet EXCEPT
                  !.op = "match",
                  !.args = <<search_name, database_name, threshold>>,
                  !.success = fuzzy_match_name(search_name, database_name, threshold)])
  /\ UNCHANGED <<tables, reservations, calls>>

LookupNext ==
  \/ GetReservations(Asker)
  \/ FuzzyMatchName(Asker)
  \/ Return(Asker)

LookupSpec == LookupInit /\ [][LookupNext]_vars

(***************************************************************************)
(* create_reservation called with the arguments the language model chose:  *)
(* main.py passes tool_input to the tool as it is (line 222), and the tool  *)
(* stores what it gets.                                                    *)
(***************************************************************************)
\* party sizes a tool call may carry: none at all, and a usual one
RawParties == {0, 3}

\* dates a tool call may carry: YYYY-MM-DD ("d1") and a word
RawDates == {"d1", "tomorrow"}

\* a time that is not HH:MM, such as '7pm'
BadTime == <<-1, -1>>

RawTimes == {<<17, 0>>, BadTime}

\* create_reservation with the arguments of tool_input, lines 176-190
CreateCheckRaw(p) ==
  /\ pc[p] = "idle"
  /\ Len(reservations) + Pending < MaxRes
  /\ \E name \in Names, party_size \in RawParties, date \in RawDates,
        time \in RawTimes :
       CreateCheckWith(p, name, party_size, date, time)
  /\ UNCHANGED <<tables, reservations, calls>>

\* tool_input lacks a required argument: the call at line 222 raises
\* TypeError before the tool runs, and process_speech catches it
CreateMissingArgument(p) ==
  /\ pc[p] = "idle"
  /\ Done(p, Raised("create", "TypeError"))
  /\ UNCHANGED <<tables, reservations, calls>>

BoundaryNext ==
  \E p \in Procs :
    \/ CreateCheckRaw(p)
    \/ CreateMissingArgument(p)
    \/ CreateCommit(p)
    \/ Return(p)

BoundarySpec == Init /\ [][BoundaryNext]_vars

(***************************************************************************)
(* Webhooks (main.py) and the metrics tracker (metrics_tracker.py).  A     *)
(* handler touches the dictionaries only after its one await, and then     *)
(* runs to its end on the event loop: a request is one step.               *)
(***************************************************************************)
\* CallMetricsTracker.__init__
NewTracker(call_sid, caller_phone) ==
  [call_sid |-> call_sid, caller_phone |-> caller_phone,
   user_turns |-> 0, agent_turns |-> 0, clarifications_needed |-> 0,
   conversation_turns |-> <<>>,
   booking_completed |-> FALSE, intent_fulfilled |-> FALSE,
   user_hung_up_early |-> FALSE,
   total_latency_ms |-> 0, api_errors |-> 0]

add_user_turn(tracker, text) ==
  [tracker EXCEPT
     !.user_turns = @ + 1,
     !.conversation_turns = Append(@, [speaker |-> "user", transcript |-> text]),
     !.clarifications_needed =
        IF ContainsAny(text, clarification_phrases) THEN @ + 1 ELSE @]

add_agent_turn(tracker, text) ==
  [tracker EXCEPT
     !.agent_turns = @ + 1,
     !.conversation_turns = Append(@, [speaker |-> "agent", transcript |-> text])]

\* set_booking_completed(True)
set_booking_completed(tracker) ==
  [tracker EXCEPT !.booking_completed = TRUE, !.intent_fulfilled = TRUE]

\* seconds between the start of a call and its end, as finalize_call
\* measures them; milliseconds one request to the language model takes
CallDurations == {20}

LlmLatencyMs == {1500}

\* the CallMetrics row finalize_call adds
MetricsRow(tracker, duration) ==
  [call_sid |-> tracker.call_sid, total_duration_sec |-> duration,
   user_turns |-> tracker.user_turns, agent_turns |-> tracker.agent_turns,
   clarifications_needed |-> tracker.clarifications_needed,
   booking_completed |-> tracker.booking_completed,
   intent_fulfilled |-> tracker.intent_fulfilled,
   user_hung_up_early |-> tracker.user_hung_up_early,
   total_latency_ms |-> tracker.total_latency_ms,
   api_errors |-> tracker.api_errors,
   caller_phone |-> tracker.caller_phone]

\* mutant of TurnRows: the turns are numbered from 0
TurnRowsFromZero(tracker) ==
  [i \in 1..Len(tracker.conversation_turns) |->
     [call_sid |-> tracker.call_sid, turn_number |-> i - 1,
      speaker |-> tracker.conversation_turns[i].speaker,
      transcript |-> tracker.conversation_turns[i].transcript]]

\* the ConversationTurn rows finalize_call adds
TurnRows(tracker) ==
  [i \in 1..Len(tracker.conversation_turns) |->
     [call_sid |-> tracker.call_sid, turn_number |-> i,
      speaker |-> tracker.conversation_turns[i].speaker,
      transcript |-> tracker.conversation_turns[i].transcript]]

\* the response of a webhook
Response(op) == [NoRet EXCEPT !.op = op, !.success = TRUE]

CallInit ==
  /\ tables = SmallRoom
  /\ reservations = <<>>
  /\ pc = [p \in Procs |-> "idle"]
  /\ req = [p \in Procs |-> NoReq]
  /\ ret = [p \in Procs |-> NoRet]
  /\ NoCalls

\* POST /voice with this form
VoiceCall(p, form) ==
  /\ pc[p] = "idle"
  /\ LET call_sid == call_sid_of(form)
     IN  /\ active_trackers' =
              DictSet(active_trackers, call_sid,
                      add_agent_turn(NewTracker(call_sid, form.From), Greeting))
         /\ conversations' = DictSet(conversations, call_sid, <<>>)
         /\ Done(p, Response("voice"))
  /\ UNCHANGED <<tables, reservations, call_metrics, conversation_turns, call_quality>>

HandleVoiceCall(p) == \E form \in Forms : VoiceCall(p, form)

\* what the language model does with a speech: it answers, it asks for
\* create_reservation and then answers, its API raises
LlmOutcomes == {"text", "tool_use", "raises"}

UserMessage(content) == [role |-> "user", content |-> content]

AssistantMessage(content) == [role |-> "assistant", content |-> content]

\* the speeches in the messages of a conversation
Spoken(messages) ==
  Cardinality({ i \in 1..Len(messages) :
                  messages[i].role = "user" /\ messages[i].content \in Speeches })

\* the reservation the language model asks create_reservation for
Booking == [name |-> CHOOSE name \in Names : TRUE, party_size |-> 3,
            date |-> "d1", time |-> <<17, 0>>]

\* POST /process-speech with this form
Speech(p, form) ==
  /\ pc[p] = "idle"
  /\ \E user_speech \in Speeches, outcome \in LlmOutcomes, latency_ms \in LlmLatencyMs :
       LET call_sid == call_sid_of(form)
           tracked == call_sid \in DOMAIN active_trackers
           known == call_sid \in DOMAIN conversations
           heard == IF tracked THEN add_user_turn(active_trackers[call_sid], user_speech)
                    ELSE NewTracker(call_sid, form.From)
           messages == Append(IF known THEN conversations[call_sid] ELSE <<>>,
                              UserMessage(user_speech))
           a == check_availability(Booking.party_size, Booking.date, Booking.time)
           booked == a.available /\ Len(reservations) < MaxRes
           timed == [heard EXCEPT !.total_latency_ms =
                       @ + (IF outcome = "tool_use" THEN 2 * latency_ms ELSE latency_ms)]
           answered == add_agent_turn(IF outcome = "tool_use" /\ booked
                                      THEN set_booking_completed(timed) ELSE timed,
                                      ReplyText)
       IN  /\ tracked => active_trackers[call_sid].user_turns < MaxTurns
           /\ known => Spoken(conversations[call_sid]) < MaxTurns
           /\ IF outcome = "raises"
              THEN /\ active_trackers' =
                        IF tracked
                        THEN DictSet(active_trackers, call_sid,
                                     [heard EXCEPT !.api_errors = @ + 1])
                        ELSE active_trackers
                   \* messages.append changed the list of the entry in place
                   /\ conversations' =
                        IF known THEN DictSet(conversations, call_sid, messages)
                        ELSE conversations
                   /\ UNCHANGED reservations
                   /\ Done(p, Raised("speech", "llm"))
              ELSE /\ active_trackers' =
                        IF tracked THEN DictSet(active_trackers, call_sid, answered)
                        ELSE active_trackers
                   /\ conversations' =
                        DictSet(conversations, call_sid,
                                IF outcome = "tool_use"
                                THEN messages \o <<AssistantMessage(<<"tool_use">>),
                                                   UserMessage(<<"tool_result">>)>>
                                ELSE Append(messages, AssistantMessage(ReplyText)))
                   /\ reservations' =
                        IF outcome = "tool_use" /\ booked
                        THEN Append(reservations,
                                    NewReservation(Booking.name, Booking.party_size,
                                                   Booking.date, Booking.time,
                                                   best_table(a.available_tables)))
                        ELSE reservations
                   /\ Done(p, Response("speech"))
  /\ UNCHANGED <<tables, call_metrics, conversation_turns, call_quality>>

ProcessSpeech(p) == \E form \in Forms : Speech(p, form)

\* POST /call-ended with this form: end_tracking_call, finalize_call and
\* the quick analysis finalize_call runs after its commit
Ended(p, form) ==
  /\ pc[p] = "idle"
  /\ \E duration \in CallDurations :
       LET call_sid == call_sid_of(form)
           tracker == active_trackers[call_sid]
           metric_rows == Append(call_metrics, MetricsRow(tracker, duration))
           turn_rows == conversation_turns \o TurnRows(tracker)
           no_reply == [kind |-> "raises", score |-> 0]
       IN  IF call_sid \notin DOMAIN active_trackers
           THEN \* "No tracker found": nothing is saved
                /\ conversations' = DictDel(conversations, call_sid)
                /\ UNCHANGED <<active_trackers, call_metrics, conversation_turns,
                               call_quality>>
                /\ Done(p, Response("call_ended"))
           ELSE IF HasMetrics(call_metrics, call_sid)
           THEN \* call_sid is the primary key of CallMetrics: the commit
                \* raises IntegrityError, finalize_call rolls back and
                \* raises again, and neither dictionary is cleaned
                /\ UNCHANGED calls
                /\ Done(p, Raised("call_ended", "IntegrityError"))
           ELSE /\ Len(call_metrics) < MaxCalls
                /\ call_metrics' = metric_rows
                /\ conversation_turns' = turn_rows
                /\ call_quality' =
                     save_quality(call_sid,
                                  dimensions_of(metric_rows, turn_rows, call_sid,
                                                FALSE, FALSE, no_reply, no_reply),
                                  utcnow)
                /\ active_trackers' = DictDel(active_trackers, call_sid)
                /\ conversations' = DictDel(conversations, call_sid)
                /\ Done(p, Response("call_ended"))
  /\ UNCHANGED <<tables, reservations>>

CallEnded(p) == \E form \in Forms : Ended(p, form)

\* the event loop of the one server process
CallNext ==
  \/ HandleVoiceCall(Asker)
  \/ ProcessSpeech(Asker)
  \/ CallEnded(Asker)
  \/ Return(Asker)

CallSpec == CallInit /\ [][CallNext]_vars

(***************************************************************************)
(* AnalyzerSpec: analyze_call_quality run, and run again, on calls on      *)
(* record, as test_quality_analyzer.py and analyze_pending_calls run it    *)
(***************************************************************************)
\* the most analyses on record
MaxAnalyses == 2

\* the call that is analysed, a call analysed before, a call not on record
AnalysedCall == "CA1"

OtherCall == "CA2"

UnknownCall == "CA3"

\* what a call put on its metrics row beside its outcome: an easy call, a
\* laboured one, one that scores below zero before the clamp
Loads ==
  { [user_turns |-> 1, clarifications_needed |-> 0, total_latency_ms |-> 1500],
    [user_turns |-> 7, clarifications_needed |-> 2, total_latency_ms |-> 4000],
    [user_turns |-> 12, clarifications_needed |-> 8, total_latency_ms |-> 9000] }

EasyLoad ==
  [user_turns |-> 1, clarifications_needed |-> 0, total_latency_ms |-> 1500]

\* seconds a call on record lasted
Durations == {0, 20, 30}

\* a CallMetrics row as finalize_call and generate_synthetic_calls write it
Metrics(call_sid, booking_completed, intent_fulfilled, user_hung_up_early, total_duration_sec, load) ==
  [call_sid |-> call_sid, total_duration_sec |-> total_duration_sec,
   user_turns |-> load.user_turns, agent_turns |-> load.user_turns + 1,
   clarifications_needed |-> load.clarifications_needed,
   booking_completed |-> booking_completed,
   intent_fulfilled |-> intent_fulfilled,
   user_hung_up_early |-> user_hung_up_early,
   total_latency_ms |-> load.total_latency_ms,
   api_errors |-> 0, caller_phone |-> "+1"]

BaseMetrics == Metrics(AnalysedCall, FALSE, FALSE, FALSE, 200, EasyLoad)

MetricsCases ==
  { Metrics(AnalysedCall, booking_completed, intent_fulfilled, user_hung_up_early,
            total_duration_sec, EasyLoad) :
      booking_completed \in BOOLEAN, intent_fulfilled \in BOOLEAN,
      user_hung_up_early \in BOOLEAN, total_duration_sec \in Durations }
  \cup { Metrics(AnalysedCall, FALSE, FALSE, FALSE, 200, load) : load \in Loads }

\* transcripts: none, the greeting alone, the greeting and an answer
NoTurns == <<>>

Greeted == <<[speaker |-> "agent", transcript |-> Greeting]>>

Answered ==
  <<[speaker |-> "agent", transcript |-> Greeting],
    [speaker |-> "user", transcript |-> <<"Y","e","s">>]>>

AnalyzerCases ==
  { [metrics |-> m, turns |-> Answered] : m \in MetricsCases }
  \cup { [metrics |-> BaseMetrics, turns |-> t] : t \in {NoTurns, Greeted} }

\* the scores the collaborator may put in its reply: the prompt asks for a
\* score from 0 to 100 and nothing holds the collaborator to it
ReplyScores == {40, 150}

Replies ==
  { [kind |-> k, score |-> 0] : k \in ReplyKinds \ {"score"} }
  \cup { [kind |-> "score", score |-> s] : s \in ReplyScores }

\* stands for the reply of a call that is not made
NotCalled == [kind |-> "raises", score |-> 0]

OtherMetrics == Metrics(OtherCall, TRUE, TRUE, FALSE, 200, EasyLoad)

AnalyzerInit ==
  /\ tables = SmallRoom
  /\ reservations = <<>>
  /\ pc = [p \in Procs |-> "idle"]
  /\ req = [p \in Procs |-> NoReq]
  /\ ret = [p \in Procs |-> NoRet]
  /\ active_trackers = <<>>
  /\ conversations = <<>>
  /\ \E case \in AnalyzerCases :
       /\ call_metrics = <<OtherMetrics, case.metrics>>
       /\ conversation_turns =
            TurnRows([call_sid |-> AnalysedCall, conversation_turns |-> case.turns])
       \* the other call was analysed when it ended, at time 0
       /\ call_quality =
            <<QualityRow(OtherCall,
                         dimensions_of(<<OtherMetrics>>, <<>>, OtherCall,
                                       FALSE, FALSE, NotCalled, NotCalled),
                         0)>>

\* the dictionary analyze_call_quality returns
Analysis(call_sid, dimensions) ==
  LET scored == calculate_overall_score(dimensions)
  IN  [call_sid |-> call_sid, dimensions |-> dimensions,
       overall_score |-> scored.overall, quality_tier |-> scored.tier]

\* analyze_call_quality(call_sid, use_ai), run from a script that may have
\* run it before
AnalyzeCallQuality(p) ==
  /\ pc[p] = "idle" \/ (pc[p] = "done" /\ ret[p].op = "analyze")
  /\ utcnow <= MaxAnalyses
  /\ \E call_sid \in {AnalysedCall, UnknownCall}, use_ai \in BOOLEAN, api_key \in BOOLEAN,
        naturalness_reply \in Replies, professionalism_reply \in Replies :
       LET called == /\ use_ai /\ api_key /\ HasMetrics(call_metrics, call_sid)
                     /\ turns_of(conversation_turns, call_sid) # <<>>
           dimensions == dimensions_of(call_metrics, conversation_turns, call_sid,
                                       use_ai, api_key,
                                       naturalness_reply, professionalism_reply)
       IN  /\ ~called => (naturalness_reply = NotCalled /\ professionalism_reply = NotCalled)
           /\ IF ~HasMetrics(call_metrics, call_sid)
              THEN \* raise ValueError(f"No metrics found for call_sid: ...")
                   /\ UNCHANGED call_quality
                   /\ Done(p, [Raised("analyze", "ValueError") EXCEPT
                                 !.args = <<call_sid, use_ai, api_key,
                                            naturalness_reply, professionalism_reply>>])
              ELSE /\ call_quality' = save_quality(call_sid, dimensions, utcnow)
                   /\ Done(p, [Response("analyze") EXCEPT
                                 !.args = <<call_sid, use_ai, api_key,
                                            naturalness_reply, professionalism_reply>>,
                                 !.found = <<Analysis(call_sid, dimensions)>>])
  /\ UNCHANGED <<tables, reservations, active_trackers, conversations, call_metrics,
                 conversation_turns>>

AnalyzerNext ==
  \/ AnalyzeCallQuality(Asker)
  \/ Return(Asker)

AnalyzerSpec == AnalyzerInit /\ [][AnalyzerNext]_vars

(***************************************************************************)
(* calculate_accuracy_score on the transcripts of a call                   *)
(***************************************************************************)
\* the most user turns with a correction and with a confirmation
MaxCorrections == 7
MaxConfirmations == 5

Repeat(turn, n) == [i \in 1..n |-> turn]

UserTurn(text) == [speaker |-> "user", transcript |-> text]

\* an agent turn whose text holds the correction keyword "no"
AgentNo == [speaker |-> "agent", transcript |-> <<"N","o">>]

\* user turns: a confirmation, a correction, two correction keywords in one
\* turn ("no" and "not"), a correction and a confirmation in one turn, and
\* a turn with no keyword
UserYes == UserTurn(<<"Y","e","s">>)
UserNo == UserTurn(<<"N","o">>)
UserNotSo == UserTurn(<<"N","o","t"," ","s","o">>)
UserYesNo == UserTurn(<<"Y","e","s"," ","n","o">>)
UserHi == UserTurn(<<"H","i">>)

Transcripts ==
  { Repeat(AgentNo, agent) \o Repeat(UserYes, yes) \o Repeat(UserNo, no)
      \o Repeat(UserNotSo, notso) \o Repeat(UserYesNo, yesno) \o Repeat(UserHi, hi) :
      agent \in 0..1, yes \in 0..MaxConfirmations, no \in 0..MaxCorrections,
      notso \in 0..1, yesno \in 0..1, hi \in 0..1 }

AccuracyInit ==
  /\ tables = SmallRoom
  /\ reservations = <<>>
  /\ pc = [p \in Procs |-> "idle"]
  /\ req = [p \in Procs |-> NoReq]
  /\ ret = [p \in Procs |-> NoRet]
  /\ active_trackers = <<>>
  /\ conversations = <<>>
  /\ call_metrics = <<>>
  /\ call_quality = <<>>
  /\ \E transcript \in Transcripts :
       conversation_turns =
         TurnRows([call_sid |-> AnalysedCall, conversation_turns |-> transcript])

\* calculate_accuracy_score(call_sid)
CalculateAccuracy(p) ==
  /\ pc[p] = "idle"
  /\ Done(p, [Response("accuracy") EXCEPT
                !.args = <<AnalysedCall>>,
                !.found = <<calculate_accuracy_score(conversation_turns, AnalysedCall)>>])
  /\ UNCHANGED <<tables, reservations, calls>>

AccuracyNext ==
  \/ CalculateAccuracy(Asker)
  \/ Return(Asker)

AccuracySpec == AccuracyInit /\ [][AccuracyNext]_vars
(***************************************************************************)
(* The overall score and the tier of five scores, by the analyzer and by   *)
(* the generator of synthetic calls                                        *)
(***************************************************************************)
ScoreCases ==
  [efficiency : {2, 77, 90}, accuracy : {25, 50, 100}, helpfulness : {50, 60, 100},
   naturalness : {75, 80, 92}, professionalism : {33, 75, 85}]

\* the five scores of a CallQuality record
scores_of(row) ==
  [efficiency |-> row.efficiency_score, accuracy |-> row.accuracy_score,
   helpfulness |-> row.helpfulness_score, naturalness |-> row.naturalness_score,
   professionalism |-> row.professionalism_score]

OverallInit ==
  /\ tables = SmallRoom
  /\ reservations = <<>>
  /\ pc = [p \in Procs |-> "idle"]
  /\ req = [p \in Procs |-> NoReq]
  /\ ret = [p \in Procs |-> NoRet]
  /\ active_trackers = <<>>
  /\ conversations = <<>>
  /\ call_metrics = <<>>
  /\ conversation_turns = <<>>
  /\ \E scores \in ScoreCases : call_quality = <<QualityRow(AnalysedCall, scores, 0)>>

\* overall, tier = calculate_overall_score(dimensions) of the analyzer, and
\* overall = calculate_overall_score(scores); tier = get_quality_tier(overall)
\* of the generator, on the scores of the record
CalculateOverall(p) ==
  /\ pc[p] = "idle"
  /\ LET scores == scores_of(call_quality[1])
         synthetic == synthetic_overall_score(scores)
     IN  Done(p, [Response("overall") EXCEPT
                    !.args = <<scores>>,
                    !.found = <<calculate_overall_score(scores),
                                [overall |-> synthetic,
                                 tier |-> get_quality_tier(synthetic)]>>])
  /\ UNCHANGED <<tables, reservations, calls>>

OverallNext ==
  \/ CalculateOverall(Asker)
  \/ Return(Asker)

OverallSpec == OverallInit /\ [][OverallNext]_vars
(***************************************************************************)
(* The A/B testing dashboard: the calls of each prompt variant, the mean   *)
(* quality of the variants, and the significance test of the best variant  *)
(* against the others.  The quality scores of the model are whole numbers  *)
(* and the arithmetic on them is exact, on fractions in lowest terms: a    *)
(* t-statistic is kept as its sign and its square.                         *)
(***************************************************************************)
RECURSIVE Gcd(_, _)
Gcd(a, b) == IF b = 0 THEN a ELSE Gcd(b, a % b)

Abs(x) == IF x < 0 THEN 0 - x ELSE x

\* the fraction n/d, d > 0, in lowest terms
Fr(n, d) == LET g == Gcd(Abs(n), d) IN [n |-> n \div g, d |-> d \div g]

FrAdd(x, y) ==
  LET g == Gcd(x.d, y.d)
  IN  Fr(x.n * (y.d \div g) + y.n * (x.d \div g), (x.d \div g) * y.d)

FrSub(x, y) == FrAdd(x, [n |-> 0 - y.n, d |-> y.d])

FrMul(x, y) ==
  LET g1 == Gcd(Abs(x.n), y.d)
      g2 == Gcd(Abs(y.n), x.d)
  IN  [n |-> (x.n \div g1) * (y.n \div g2), d |-> (x.d \div g2) * (y.d \div g1)]

\* x / y for y > 0
FrDiv(x, y) == FrMul(x, [n |-> y.d, d |-> y.n])

\* x > y, by whole parts and then by the remainders
RECURSIVE FrGt(_, _)
FrGt(x, y) ==
  LET qx == x.n \div x.d
      qy == y.n \div y.d
      rx == x.n % x.d
      ry == y.n % y.d
  IN  IF qx # qy THEN qx > qy
      ELSE IF rx = 0 THEN FALSE
      ELSE IF ry = 0 THEN TRUE
      ELSE FrGt([n |-> y.d, d |-> ry], [n |-> x.d, d |-> rx])

Whole(n) == [n |-> n, d |-> 1]

\* the number of entries of a sample that equal x
Occurrences(sample, x) == Cardinality({ i \in 1..Len(sample) : sample[i] = x })

\* sum(sample), added value by value: each value times its number of entries
RECURSIVE SumOver(_, _)
SumOver(sample, values) ==
  IF values = {} THEN 0
  ELSE LET x == CHOOSE x \in values : TRUE
       IN  x * Occurrences(sample, x) + SumOver(sample, values \ {x})

SumOf(sample) == SumOver(sample, { sample[i] : i \in 1..Len(sample) })

\* sum((x - mean) ** 2 for x in sample), added value by value
RECURSIVE SquaresOver(_, _, _)
SquaresOver(sample, mean, values) ==
  IF values = {} THEN Whole(0)
  ELSE LET x == CHOOSE x \in values : TRUE
           deviation == FrSub(Whole(x), mean)
       IN  FrAdd(FrMul(Whole(Occurrences(sample, x)), FrMul(deviation, deviation)),
                 SquaresOver(sample, mean, values \ {x}))

SumOfSquares(sample, mean) ==
  SquaresOver(sample, mean, { sample[i] : i \in 1..Len(sample) })

\* the (None, None) of a test not made; the p-values are in hundredths
NoTest ==
  [made |-> FALSE, t_stat |-> [sign |-> 0, squared |-> Whole(0)], p_value |-> 0]

\* |t| > 2.58, 1.96 and 1.64, on the square of t
Above258(squared) == FrGt(squared, Fr(258 * 258, 10000))
Above196(squared) == FrGt(squared, Fr(196 * 196, 10000))
Above164(squared) == FrGt(squared, Fr(164 * 164, 10000))

\* var / n of a sample
VarianceOverN(sample) ==
  LET n == Len(sample)
      mean == Fr(SumOf(sample), n)
      var == FrDiv(SumOfSquares(sample, mean), Whole(n - 1))
  IN  FrDiv(var, Whole(n))

\* the square of pooled_se
SquaredError(sample1, sample2) ==
  FrAdd(VarianceOverN(sample1), VarianceOverN(sample2))

\* the square of t_stat
SquaredT(sample1, sample2) ==
  LET difference == FrSub(Fr(SumOf(sample1), Len(sample1)),
                          Fr(SumOf(sample2), Len(sample2)))
  IN  FrDiv(FrMul(difference, difference), SquaredError(sample1, sample2))

\* df > 30 for the Welch-Satterthwaite df
\*   (var1/n1 + var2/n2)^2 / ((var1/n1)^2/(n1-1) + (var2/n2)^2/(n2-1)).
\* df does not change when both var/n are multiplied by one number: they are
\* brought to whole numbers a and b with no common factor, and (a + b)^2 / 30
\* is compared with the denominator
DfAbove30(sample1, sample2) ==
  LET x == VarianceOverN(sample1)
      y == VarianceOverN(sample2)
      g == Gcd(x.d, y.d)
      whole1 == x.n * (y.d \div g)
      whole2 == y.n * (x.d \div g)
      common == Gcd(whole1, whole2)
      a == whole1 \div common
      b == whole2 \div common
  IN  FrGt(Fr((a + b) * (a + b), 30),
           FrAdd(Fr(a * a, Len(sample1) - 1), Fr(b * b, Len(sample2) - 1)))

calculate_t_statistic(sample1, sample2) ==
  IF Len(sample1) < 2 \/ Len(sample2) < 2 THEN NoTest
  ELSE IF SquaredError(sample1, sample2).n = 0 THEN NoTest
  ELSE LET ahead == SumOf(sample1) * Len(sample2) - SumOf(sample2) * Len(sample1)
           squared == SquaredT(sample1, sample2)
       IN  [made |-> TRUE,
            t_stat |-> [sign |-> IF ahead > 0 THEN 1 ELSE IF ahead < 0 THEN 0 - 1 ELSE 0,
                        squared |-> squared],
            p_value |-> IF DfAbove30(sample1, sample2)
                        THEN IF Above258(squared) THEN 1
                             ELSE IF Above196(squared) THEN 5
                             ELSE IF Above164(squared) THEN 10
                             ELSE 20
                        ELSE 10]

\* db.query(CallMetrics).join(CallQuality).all()
all_calls ==
  SelectSeq(call_metrics,
            LAMBDA c : \E i \in 1..Len(call_quality) :
                         call_quality[i].call_sid = c.call_sid)

\* the index of the first call of a variant
first_call(found, variant) ==
  CHOOSE i \in 1..Len(found) :
    /\ found[i].prompt_version = variant
    /\ \A j \in 1..(i - 1) : found[j].prompt_version # variant

\* the keys of calls_by_variant, in the order of their first call
variants_of(found) ==
  LET variants == { found[i].prompt_version : i \in 1..Len(found) }
  IN  [k \in 1..Cardinality(variants) |->
         CHOOSE v \in variants :
           Cardinality({ u \in variants :
                           first_call(found, u) < first_call(found, v) }) = k - 1]

\* [c.quality.overall_score for c in calls if c.quality]
quality_scores(variant) ==
  LET found == SelectSeq(all_calls, LAMBDA c : c.prompt_version = variant)
  IN  [i \in 1..Len(found) |->
         call_quality[CHOOSE j \in 1..Len(call_quality) :
                        call_quality[j].call_sid = found[i].call_sid].overall_score]

\* the entry of a variant in variant_stats
VariantStat(variant) ==
  LET scores == quality_scores(variant)
  IN  [name |-> variant,
       call_count |-> Len(scores),
       avg_quality |-> Fr(SumOf(scores), Len(scores)),
       quality_scores |-> scores,
       is_winner |-> FALSE,
       is_significant |-> FALSE]

\* variant_stats.sort(key=lambda x: x["avg_quality"], reverse=True): the
\* sort is stable, entries of equal mean keep their order
RECURSIVE SortByQuality(_)
SortByQuality(stats) ==
  IF stats = <<>> THEN <<>>
  ELSE LET sorted == SortByQuality(SubSeq(stats, 1, Len(stats) - 1))
           last == stats[Len(stats)]
           ahead == { i \in 1..Len(sorted) :
                        ~FrGt(last.avg_quality, sorted[i].avg_quality) }
           k == Cardinality(ahead)
       IN  SubSeq(sorted, 1, k) \o <<last>> \o SubSeq(sorted, k + 1, Len(sorted))

\* the least number of scores of a sample of the significance test
MinSamples == 30

\* p_value and p_value < 0.05
Significant(test) == test.made /\ test.p_value < 5

\* mutant of variant_stats: the test is made on samples of any size
variant_stats_ungated ==
  LET variants == variants_of(all_calls)
      stats == SortByQuality([i \in 1..Len(variants) |-> VariantStat(variants[i])])
      best_scores == stats[1].quality_scores
  IN  [i \in 1..Len(stats) |->
         IF i = 1
         THEN [stats[1] EXCEPT !.is_winner =
                 Len(stats) >= 2 /\ Len(best_scores) >= MinSamples]
         ELSE [stats[i] EXCEPT !.is_significant =
                 Significant(calculate_t_statistic(best_scores,
                                                   stats[i].quality_scores))]]

\* mutant of variant_stats: the variants are left in the order of their
\* first call
variant_stats_unranked ==
  LET variants == variants_of(all_calls)
      stats == [i \in 1..Len(variants) |-> VariantStat(variants[i])]
      best_scores == stats[1].quality_scores
  IN  [i \in 1..Len(stats) |->
         IF i = 1
         THEN [stats[1] EXCEPT !.is_winner =
                 Len(stats) >= 2 /\ Len(best_scores) >= MinSamples]
         ELSE [stats[i] EXCEPT !.is_significant =
                 /\ Len(best_scores) >= MinSamples
                 /\ Len(stats[i].quality_scores) >= MinSamples
                 /\ Significant(calculate_t_statistic(best_scores,
                                                      stats[i].quality_scores))]]

\* lines 759-780: the significance of the other variants and the winner
variant_stats ==
  LET variants == variants_of(all_calls)
      stats == SortByQuality([i \in 1..Len(variants) |-> VariantStat(variants[i])])
      best_scores == stats[1].quality_scores
  IN  [i \in 1..Len(stats) |->
         IF i = 1
         THEN [stats[1] EXCEPT !.is_winner =
                 Len(stats) >= 2 /\ Len(best_scores) >= MinSamples]
         ELSE [stats[i] EXCEPT !.is_significant =
                 /\ Len(best_scores) >= MinSamples
                 /\ Len(stats[i].quality_scores) >= MinSamples
                 /\ Significant(calculate_t_statistic(best_scores,
                                                      stats[i].quality_scores))]]

\* the samples of the model: low scores followed by high scores
Sample(n, k, low, high) == [i \in 1..n |-> IF i <= k THEN low ELSE high]

Samples ==
  { Sample(35, 14, 70, 74), Sample(35, 14, 71, 75), Sample(35, 14, 72, 76),
    Sample(35, 14, 69, 75), Sample(30, 15, 75, 77), Sample(30, 0, 70, 70),
    Sample(10, 5, 70, 72), Sample(10, 5, 90, 92) }

\* the calls of a variant and their quality records
VariantCalls(variant, sample) ==
  [i \in 1..Len(sample) |-> [call_sid |-> <<variant, i>>, prompt_version |-> variant]]

VariantQuality(variant, sample) ==
  [i \in 1..Len(sample) |-> [call_sid |-> <<variant, i>>, overall_score |-> sample[i]]]

VariantOrders ==
  { <<"v1_baseline", "v2_friendly", "v3_efficient">>,
    <<"v2_friendly", "v1_baseline", "v3_efficient">> }

DashboardInit ==
  /\ tables = SmallRoom
  /\ reservations = <<>>
  /\ pc = [p \in Procs |-> "idle"]
  /\ req = [p \in Procs |-> NoReq]
  /\ ret = [p \in Procs |-> NoRet]
  /\ active_trackers = <<>>
  /\ conversations = <<>>
  /\ conversation_turns = <<>>
  /\ \E order \in VariantOrders, first \in Samples, second \in Samples \cup {<<>>},
        third \in {<<>>, Sample(35, 14, 70, 74)} :
       /\ call_metrics = VariantCalls(order[1], first) \o VariantCalls(order[2], second)
                           \o VariantCalls(order[3], third)
       /\ call_quality = VariantQuality(order[1], first)
                           \o VariantQuality(order[2], second)
                           \o VariantQuality(order[3], third)

\* GET /dashboard/ab-testing
DashboardAbTesting(p) ==
  /\ pc[p] = "idle"
  /\ Done(p, [Response("ab_testing") EXCEPT !.found = variant_stats])
  /\ UNCHANGED <<tables, reservations, calls>>

DashboardNext ==
  \/ DashboardAbTesting(Asker)
  \/ Return(Asker)

DashboardSpec == DashboardInit /\ [][DashboardNext]_vars
(***************************************************************************)
(* ChainSpec: process_speech followed through its tool chain.  The handler *)
(* has no await after it has read the form, so no other request runs       *)
(* between its steps; a step is one content block of a response of the     *)
(* language model.  A tool_use block is named by its place in the chain:   *)
(* <<k>> is block k of the first response, <<k, j>> block j of the         *)
(* follow-up to <<k>>, <<k, j, m>> block m of the final response after     *)
(* <<k, j>>.  The handler keeps, beside the locals of the code, the tools   *)
(* the language model has requested, the tools it has called and the calls *)
(* that raised.                                                            *)
(***************************************************************************)
\* llm.py lines 109-120: the content blocks get_response_with_tools hands
\* back.  returns: whether the call of the tool returns; check_availability
\* has no except branch (reservation_tools.py 91-145), a query of it that
\* fails raises into process_speech
TextBlock(text) == [type |-> "text", text |-> text, name |-> "", returns |-> TRUE]

ToolUse(name, returns) == [type |-> "tool_use", text |-> <<>>, name |-> name, returns |-> returns]

\* main.py line 332, llm.py line 130
SorryText == <<"S","o","r","r","y">>

TroubleText == <<"S","o","r","r","y","N","o","w">>

\* llm.py lines 124-132: the API raised, get_response_with_tools answers
\* with an apology
ApiError == [stop_reason |-> "error", content |-> <<TextBlock(TroubleText)>>]

\* what the language model answers: a text, a booking, a text and a look at
\* the availability, a look at the availability whose query fails and a
\* booking, nothing but an API error
Responses ==
  { [stop_reason |-> "end_turn", content |-> <<TextBlock(ReplyText)>>],
    [stop_reason |-> "tool_use", content |-> <<ToolUse("create_reservation", TRUE)>>],
    [stop_reason |-> "tool_use",
     content |-> <<TextBlock(ReplyText), ToolUse("check_availability", TRUE)>>],
    [stop_reason |-> "tool_use",
     content |-> <<ToolUse("check_availability", FALSE),
                   ToolUse("create_reservation", TRUE)>>],
    ApiError }

\* the tool_use blocks of a response, named by their place under prefix
ToolIds(response, prefix) ==
  { Append(prefix, i) : i \in { x \in 1..Len(response.content) :
                                  response.content[x].type = "tool_use" } }

\* the text the blocks of a response leave in assistant_text
TextAfter(response, assistant_text) ==
  LET texts == { i \in 1..Len(response.content) : response.content[i].type = "text" }
  IN  IF texts = {} THEN assistant_text
      ELSE response.content[CHOOSE i \in texts : \A x \in texts : x <= i].text

\* llm.py lines 85-89: get_response_with_tools appends the user message to
\* the list it is given, the conversation of process_speech
Asked(messages, user_message) == Append(messages, UserMessage(user_message))

\* main.py lines 231-243 and 292-304: the tool use and its result, then the
\* empty user message of the next request to the language model
Chained(messages) ==
  Asked(messages \o <<AssistantMessage(<<"tool_use">>), UserMessage(<<"tool_result">>)>>,
        <<>>)

\* result = func(**tool_input): whether the call booked a table
Books(block) ==
  /\ block.name = "create_reservation"
  /\ check_availability(Booking.party_size, Booking.date, Booking.time).available

\* the reservations after func(**tool_input)
BookAfter(block) ==
  IF Books(block)
  THEN Append(reservations,
              NewReservation(Booking.name, Booking.party_size, Booking.date, Booking.time,
                             best_table(available_tables(Booking.party_size, Booking.date,
                                                         Booking.time))))
  ELSE reservations

\* mutant of AfterTool: the booking counts as completed whatever
\* create_reservation returned
AfterToolAnyResult(tracker, block, latency_ms) ==
  [(IF block.name = "create_reservation" THEN set_booking_completed(tracker) ELSE tracker)
     EXCEPT !.total_latency_ms = @ + latency_ms]

\* the tracker of the call after a tool has returned and the language model
\* has answered: lines 226-228 and 257-258, 287-289 and 318-319 of main.py
AfterTool(tracker, block, latency_ms) ==
  [(IF Books(block) THEN set_booking_completed(tracker) ELSE tracker)
     EXCEPT !.total_latency_ms = @ + latency_ms]

\* if tracker: ...
Tracking(call_sid, tracker) ==
  IF call_sid \in DOMAIN active_trackers
  THEN DictSet(active_trackers, call_sid, tracker)
  ELSE active_trackers

\* the one call the chain is followed for
TheCall == [From |-> "+1", CallSid |-> "CA1"]

\* the one table that seats the party of Booking is free, or an earlier call
\* has taken it
ChainInit ==
  /\ tables = SmallRoom
  /\ reservations \in { <<>>, <<NewReservation(Booking.name, Booking.party_size,
                                               Booking.date, Booking.time, 1)>> }
  /\ pc = [p \in Procs |-> "idle"]
  /\ req = [p \in Procs |-> NoReq]
  /\ ret = [p \in Procs |-> NoRet]
  /\ NoCalls

\* lines 141-192: the user turn, the history and the first request to the
\* language model
SpeechStart(p) ==
  /\ pc[p] = "idle"
  /\ \E user_speech \in Speeches, response \in Responses, latency_ms \in LlmLatencyMs :
       LET call_sid == call_sid_of(TheCall)
           tracked == call_sid \in DOMAIN active_trackers
           known == call_sid \in DOMAIN conversations
           messages == Append(IF known THEN conversations[call_sid] ELSE <<>>,
                              UserMessage(user_speech))
       IN  /\ tracked => active_trackers[call_sid].user_turns < MaxTurns
           /\ known => Spoken(conversations[call_sid]) < 2 * MaxTurns
           /\ active_trackers' =
                Tracking(call_sid,
                         [add_user_turn(active_trackers[call_sid], user_speech)
                            EXCEPT !.total_latency_ms = @ + latency_ms])
           /\ pc' = [pc EXCEPT ![p] = "respond"]
           /\ req' = [req EXCEPT ![p] =
                        [op |-> "speech", call_sid |-> call_sid,
                         messages |-> Asked(messages, user_speech),
                         response |-> response, k |-> 1,
                         followup |-> ApiError, j |-> 0,
                         assistant_text |-> <<>>,
                         requested |-> ToolIds(response, <<>>),
                         executed |-> <<>>, raised |-> {}]]
  /\ UNCHANGED <<tables, reservations, ret, conversations, call_metrics,
                 conversation_turns, call_quality>>

\* lines 194-258 and 327-332: one turn of "for block in response['content']"
\* up to the follow-up request, or through the except branch
FirstBlock(p) ==
  /\ pc[p] = "respond"
  /\ req[p].k <= Len(req[p].response.content)
  /\ LET r == req[p]
         block == r.response.content[r.k]
         tracker == active_trackers[r.call_sid]
     IN  IF block.type = "text"
         THEN /\ req' = [req EXCEPT ![p] = [r EXCEPT !.assistant_text = block.text,
                                                      !.k = @ + 1]]
              /\ UNCHANGED <<pc, reservations, active_trackers>>
         ELSE IF ~block.returns
         THEN /\ req' = [req EXCEPT ![p] = [r EXCEPT !.executed = Append(@, <<r.k>>),
                                                      !.raised = @ \cup {<<r.k>>},
                                                      !.assistant_text = SorryText,
                                                      !.k = @ + 1]]
              /\ active_trackers' =
                   Tracking(r.call_sid, [tracker EXCEPT !.api_errors = @ + 1])
              /\ UNCHANGED <<pc, reservations>>
         ELSE \E followup \in Responses, latency_ms \in LlmLatencyMs :
                /\ reservations' = BookAfter(block)
                /\ active_trackers' =
                     Tracking(r.call_sid, AfterTool(tracker, block, latency_ms))
                /\ req' = [req EXCEPT ![p] =
                             [r EXCEPT !.executed = Append(@, <<r.k>>),
                                       !.messages = Chained(@),
                                       !.followup = followup, !.j = 1,
                                       !.requested = @ \cup ToolIds(followup, <<r.k>>)]]
                /\ pc' = [pc EXCEPT ![p] = "followup"]
  /\ UNCHANGED <<tables, ret, conversations, call_metrics, conversation_turns,
                 call_quality>>

\* mutant of FollowupBlock: the tools of the final response are run as well
FollowupBlockChainingOn(p) ==
  /\ pc[p] = "followup"
  /\ LET r == req[p]
         over == r.j > Len(r.followup.content)
         block == r.followup.content[r.j]
         tracker == active_trackers[r.call_sid]
     IN  IF over
         THEN /\ req' = [req EXCEPT ![p] = [r EXCEPT !.k = @ + 1, !.j = 0]]
              /\ pc' = [pc EXCEPT ![p] = "respond"]
              /\ UNCHANGED <<reservations, active_trackers>>
         ELSE IF block.type = "text"
         THEN /\ req' = [req EXCEPT ![p] = [r EXCEPT !.assistant_text = block.text,
                                                      !.j = @ + 1]]
              /\ UNCHANGED <<pc, reservations, active_trackers>>
         ELSE IF ~block.returns
         THEN /\ req' = [req EXCEPT ![p] = [r EXCEPT !.executed = Append(@, <<r.k, r.j>>),
                                                      !.raised = @ \cup {<<r.k, r.j>>},
                                                      !.assistant_text = SorryText,
                                                      !.k = @ + 1, !.j = 0]]
              /\ active_trackers' =
                   Tracking(r.call_sid, [tracker EXCEPT !.api_errors = @ + 1])
              /\ pc' = [pc EXCEPT ![p] = "respond"]
              /\ UNCHANGED reservations
         ELSE \E final_response \in Responses, latency_ms \in LlmLatencyMs :
                /\ reservations' = BookAfter(block)
                /\ active_trackers' =
                     Tracking(r.call_sid, AfterTool(tracker, block, latency_ms))
                /\ req' = [req EXCEPT ![p] =
                             [r EXCEPT !.executed =
                                          Append(@, <<r.k, r.j>>) \o
                                          SelectSeq([m \in 1..Len(final_response.content)
                                                       |-> <<r.k, r.j, m>>],
                                                    LAMBDA id :
                                                      id \in ToolIds(final_response,
                                                                     <<r.k, r.j>>)),
                                       !.messages = Chained(@),
                                       !.assistant_text = TextAfter(final_response, @),
                                       !.j = @ + 1,
                                       !.requested =
                                          @ \cup ToolIds(final_response, <<r.k, r.j>>)]]
                /\ UNCHANGED pc
  /\ UNCHANGED <<tables, ret, conversations, call_metrics, conversation_turns,
                 call_quality>>

\* lines 261-332: one turn of "for fb_block in followup['content']" with
\* the final request after a chained tool, the end of that loop, or the
\* except branch, which leaves the loop
FollowupBlock(p) ==
  /\ pc[p] = "followup"
  /\ LET r == req[p]
         over == r.j > Len(r.followup.content)
         block == r.followup.content[r.j]
         tracker == active_trackers[r.call_sid]
     IN  IF over
         THEN /\ req' = [req EXCEPT ![p] = [r EXCEPT !.k = @ + 1, !.j = 0]]
              /\ pc' = [pc EXCEPT ![p] = "respond"]
              /\ UNCHANGED <<reservations, active_trackers>>
         ELSE IF block.type = "text"
         THEN /\ req' = [req EXCEPT ![p] = [r EXCEPT !.assistant_text = block.text,
                                                      !.j = @ + 1]]
              /\ UNCHANGED <<pc, reservations, active_trackers>>
         ELSE IF ~block.returns
         THEN /\ req' = [req EXCEPT ![p] = [r EXCEPT !.executed = Append(@, <<r.k, r.j>>),
                                                      !.raised = @ \cup {<<r.k, r.j>>},
                                                      !.assistant_text = SorryText,
                                                      !.k = @ + 1, !.j = 0]]
              /\ active_trackers' =
                   Tracking(r.call_sid, [tracker EXCEPT !.api_errors = @ + 1])
              /\ pc' = [pc EXCEPT ![p] = "respond"]
              /\ UNCHANGED reservations
         ELSE \E final_response \in Responses, latency_ms \in LlmLatencyMs :
                /\ reservations' = BookAfter(block)
                /\ active_trackers' =
                     Tracking(r.call_sid, AfterTool(tracker, block, latency_ms))
                /\ req' = [req EXCEPT ![p] =
                             [r EXCEPT !.executed = Append(@, <<r.k, r.j>>),
                                       !.messages = Chained(@),
                                       !.assistant_text = TextAfter(final_response, @),
                                       !.j = @ + 1,
                                       !.requested =
                                          @ \cup ToolIds(final_response, <<r.k, r.j>>)]]
                /\ UNCHANGED pc
  /\ UNCHANGED <<tables, ret, conversations, call_metrics, conversation_turns,
                 call_quality>>

\* lines 334-369: the agent turn, the assistant message, the conversation is
\* put back under the call id and the TwiML is returned
SpeechFinish(p) ==
  /\ pc[p] = "respond"
  /\ req[p].k > Len(req[p].response.content)
  /\ LET r == req[p]
         said == r.assistant_text # <<>>
     IN  /\ active_trackers' =
              IF said
              THEN Tracking(r.call_sid,
                            add_agent_turn(active_trackers[r.call_sid], r.assistant_text))
              ELSE active_trackers
         /\ conversations' =
              DictSet(conversations, r.call_sid,
                      IF said /\ r.response.stop_reason # "tool_use"
                      THEN Append(r.messages, AssistantMessage(r.assistant_text))
                      ELSE r.messages)
         /\ Done(p, [Response("speech") EXCEPT !.found = r.executed])
  /\ UNCHANGED <<tables, reservations, call_metrics, conversation_turns, call_quality>>

\* Twilio posts /voice once for a call id, then /process-speech for each
\* speech it gathers, then /call-ended
InProgress == call_sid_of(TheCall) \in DOMAIN active_trackers

ChainNext ==
  \/ ~InProgress /\ call_metrics = <<>> /\ VoiceCall(Asker, TheCall)
  \/ InProgress /\ SpeechStart(Asker)
  \/ FirstBlock(Asker)
  \/ FollowupBlock(Asker)
  \/ SpeechFinish(Asker)
  \/ InProgress /\ Ended(Asker, TheCall)
  \/ Return(Asker)

ChainSpec == ChainInit /\ [][ChainNext]_vars

\* process_speech is synchronous code on the event loop: once it has
\* started, its next step is taken
ChainHandling ==
  \/ FirstBlock(Asker)
  \/ FollowupBlock(Asker)
  \/ SpeechFinish(Asker)

ChainLiveSpec == ChainSpec /\ WF_vars(ChainHandling)

(***************************************************************************)
(* Properties                                                              *)
(***************************************************************************)
Confirmed(i) == reservations[i].status = "confirmed"

SameSlot(i, j) ==
  /\ reservations[i].date = reservations[j].date
  /\ reservations[i].time = reservations[j].time

Range(seq) == { seq[k] : k \in 1..Len(seq) }

\* p's call returns in this step
Returns(p) == pc[p] # "done" /\ pc'[p] = "done"

\* C1: no two confirmed reservations of one date and time hold the same
\* (non-null) assigned table, whatever the interleaving of concurrent
\* create_reservation calls.
NoDoubleBooking ==
  \A i \in ResIds, j \in ResIds :
    ( /\ i # j
      /\ Confirmed(i) /\ Confirmed(j)
      /\ SameSlot(i, j)
      /\ reservations[i].assigned_table_id # NoTable
      /\ reservations[j].assigned_table_id # NoTable )
    => reservations[i].assigned_table_id # reservations[j].assigned_table_id

\* C2: two create_reservation calls that race for one slot never both
\* return success for the same table: of two callers whose calls have both
\* returned success for the same date and time, with both reservations still
\* confirmed, each holds a table of its own.
RaceHasOneWinner ==
  \A p \in Procs, q \in Procs :
    ( /\ p # q
      /\ pc[p] = "done" /\ ret[p].op = "create" /\ ret[p].success
      /\ pc[q] = "done" /\ ret[q].op = "create" /\ ret[q].success
      /\ SameSlot(ret[p].id, ret[q].id)
      /\ Confirmed(ret[p].id) /\ Confirmed(ret[q].id) )
    => reservations[ret[p].id].assigned_table_id
         # reservations[ret[q].id].assigned_table_id

\* the tables the spec calls free for a party at a slot
FreeTables(party_size, date, time) ==
  LET held == { reservations[i].assigned_table_id :
                  i \in { j \in ResIds : /\ Confirmed(j)
                                         /\ reservations[j].date = date
                                         /\ reservations[j].time = time } }
  IN  { t \in TableIds :
          tables[t].is_active /\ tables[t].capacity >= party_size /\ t \notin held }

\* C3: whenever check_availability answers available=True, its
\* available_tables are exactly the active tables of capacity >= party_size
\* that no confirmed reservation at that date and time is assigned to, each
\* listed once; none has a capacity below party_size.
AvailabilityIsExact ==
  \A party_size \in Parties, date \in Dates, time \in Times :
    LET a == check_availability(party_size, date, time)
        free == FreeTables(party_size, date, time)
    IN  a.available =>
          /\ Range(a.available_tables) = free
          /\ Len(a.available_tables) = Cardinality(free)
          /\ \A t \in Range(a.available_tables) : tables[t].capacity >= party_size

\* C3 witness: a check for a party of three has returned the large table and
\* one of the tables for four, the other one being booked and the table for
\* two too small.
AvailabilityIsExactWitness ==
  \E p \in Procs :
    /\ pc[p] = "done" /\ ret[p].op = "check" /\ ret[p].success
    /\ ret[p].available_tables = <<1, 4>>

\* C4: the table create_reservation picks has the smallest capacity among
\* the tables available to the party at that date and time and, among those
\* of that capacity, the lowest id; it is the table the reservation gets.
AllocatorPicksSmallestLowestId ==
  [][\A p \in Procs :
       /\ (pc[p] = "idle" /\ pc'[p] = "create_commit") =>
            LET r == req'[p]
                free == FreeTables(r.party_size, r.date, r.time)
            IN  /\ r.target \in free
                /\ \A t \in free :
                     \/ tables[r.target].capacity < tables[t].capacity
                     \/ /\ tables[r.target].capacity = tables[t].capacity
                        /\ r.target <= t
       /\ (pc[p] = "create_commit" /\ Returns(p) /\ ret'[p].success) =>
            reservations'[ret'[p].id].assigned_table_id = req[p].target
    ]_vars

\* C4 witness: a party of three got table 3, the lower of the two tables for
\* four, though the table for six comes first in the inventory.
AllocatorWitness ==
  \E p \in Procs :
    /\ pc[p] = "done" /\ ret[p].op = "create" /\ ret[p].success
    /\ reservations[ret[p].id].party_size = 3
    /\ reservations[ret[p].id].assigned_table_id = 3

\* C5: a confirmed reservation always has an assigned table: no state shows
\* a confirmed reservation whose assigned_table_id is null.
ConfirmedHasTable ==
  \A i \in ResIds :
    Confirmed(i) => reservations[i].assigned_table_id \in TableIds

\* C5 witness: a reservation has been written and is confirmed while the
\* other caller is between the two transactions of its own call.
ConfirmedHasTableWitness ==
  \E p \in Procs, q \in Procs :
    /\ pc[p] = "done" /\ ret[p].op = "create" /\ ret[p].success
    /\ Confirmed(ret[p].id)
    /\ pc[q] \in {"create_commit", "cancel_commit"}

\* C6: when the availability check of create_reservation fails, the call
\* returns success=False with the reason and the alternatives of that check
\* and writes nothing; the call goes on to the insert only when the check
\* succeeded.
CreateFailureWritesNothing ==
  [][\A p \in Procs :
       /\ ( /\ pc[p] = "idle" /\ Returns(p)
            /\ ret'[p].op = "create" /\ ret'[p].reason # "error" ) =>
            /\ ~ret'[p].success
            /\ reservations' = reservations
            /\ tables' = tables
            /\ \E party_size \in Parties, date \in Dates, time \in Times :
                 LET a == check_availability(party_size, date, time)
                 IN  /\ ~a.available
                     /\ ret'[p].reason = a.reason
                     /\ ret'[p].suggested_alternatives = a.suggested_alternatives
       /\ (pc[p] = "idle" /\ pc'[p] = "create_commit") =>
            check_availability(req'[p].party_size, req'[p].date, req'[p].time).available
    ]_vars

\* C6 witness: a create call has failed on a fully booked slot and returned
\* alternative times, and one has failed for want of a large enough table.
CreateFailureWitness ==
  /\ \E p \in Procs :
       /\ pc[p] = "done" /\ ret[p].op = "create"
       /\ ret[p].reason = "fully_booked"
       /\ ret[p].suggested_alternatives # <<>>
  /\ \E p \in Procs :
       /\ pc[p] = "done" /\ ret[p].op = "create"
       /\ ret[p].reason = "no_table_large_enough"

\* C7: a create_reservation or cancel_reservation call that returns the
\* failure of its except branch has persisted nothing.
ErrorPersistsNothing ==
  [][\A p \in Procs :
       (Returns(p) /\ ret'[p].reason = "error") => reservations' = reservations
    ]_vars

\* C8: cancelled and completed are terminal: no step changes the status of
\* a reservation that is cancelled or completed.
TerminalStatusesStay ==
  [][\A i \in ResIds :
       reservations[i].status \in {"cancelled", "completed"} =>
         reservations'[i].status = reservations[i].status
    ]_vars

\* C9: cancel_reservation by id, on an id that exists, returns success
\* whether or not the reservation was cancelled before (the repeat is a
\* success, not a not-found), the reservation is then cancelled and stays so;
\* not-found is returned only for an id that does not exist.  A call in which
\* the database raised returns the failure of the except branch instead.
CancelByIdRepeats ==
  [][/\ \A p \in Procs :
          ( /\ Returns(p)
            /\ ret'[p].op = "cancel_id" /\ ret'[p].reason # "error" ) =>
            IF ret'[p].success
            THEN /\ pc[p] = "cancel_commit"
                 /\ reservations'[ret'[p].id].status = "cancelled"
            ELSE /\ ret'[p].reason = "not_found"
                 /\ ret'[p].id \notin ResIds
     /\ \A p \in Procs :
          (pc[p] = "idle" /\ pc'[p] = "cancel_commit" /\ req'[p].op = "cancel_id") =>
            req'[p].target \in ResIds
     /\ \A i \in ResIds :
          reservations[i].status = "cancelled" => reservations'[i].status = "cancelled"
    ]_vars

\* C9 witness: both callers have cancelled the same reservation by id and
\* both calls returned success.
CancelByIdRepeatsWitness ==
  \E p \in Procs, q \in Procs :
    /\ p # q
    /\ pc[p] = "done" /\ ret[p].op = "cancel_id" /\ ret[p].success
    /\ pc[q] = "done" /\ ret[q].op = "cancel_id" /\ ret[q].success
    /\ ret[p].id = ret[q].id
    /\ reservations[ret[p].id].status = "cancelled"

\* the candidates of a cancel by name that reach the threshold
Matching(name, date) ==
  { i \in ResIds :
      /\ Confirmed(i)
      /\ (date # NoDate => reservations[i].date = date)
      /\ SimTable[name][reservations[i].name] >= Threshold }

\* C10: cancel_reservation by name resolves to the confirmed reservation,
\* passing the date filter, of the highest similarity score >= 75, and among
\* several of that score to the most recently created one (the highest id).
CancelByNamePicksMostRecentBest ==
  \A name \in SearchNames, date \in DateFilters :
    LET m == Matching(name, date)
        target == resolve_target(NoId, name, date)
        Score(i) == SimTable[name][reservations[i].name]
    IN  IF m = {} THEN target = NoId
        ELSE /\ target \in m
             /\ \A i \in m : \/ Score(target) > Score(i)
                             \/ Score(target) = Score(i) /\ target >= i

\* C11: when cancel_reservation cannot resolve its target (no reservation
\* with the given id, no confirmed candidate scoring >= 75 under the name
\* and date filter) it returns the not-found failure and changes no
\* reservation; the call goes on to the update only for a reservation that
\* exists and, by name, is confirmed, passes the date filter and scores
\* >= 75, and the update touches that reservation only.
CancelNotFoundChangesNothing ==
  [][\A p \in Procs :
       /\ ( /\ pc[p] = "idle" /\ Returns(p)
            /\ ret'[p].op \in {"cancel_id", "cancel_name"}
            /\ ret'[p].reason # "error" ) =>
            /\ ~ret'[p].success
            /\ ret'[p].reason = "not_found"
            /\ ret'[p].op = "cancel_id" => ret'[p].id \notin ResIds
            /\ reservations' = reservations
       /\ (pc[p] = "idle" /\ pc'[p] = "cancel_commit") =>
            LET r == req'[p]
            IN  /\ r.target \in ResIds
                /\ r.op = "cancel_name" =>
                     /\ Confirmed(r.target)
                     /\ r.date # NoDate => reservations[r.target].date = r.date
                     /\ SimTable[r.name][reservations[r.target].name] >= 75
       /\ (pc[p] = "idle" /\ ret'[p].reason = "not_found") =>
            \A args \in CancelArgs :
              (args[1] = NoId /\ args[2] # NoName /\ ret'[p].op = "cancel_name"
                 /\ resolve_target(NoId, args[2], args[3]) = NoId) =>
                \A i \in ResIds :
                  ~( /\ Confirmed(i)
                     /\ args[3] # NoDate => reservations[i].date = args[3]
                     /\ SimTable[args[2]][reservations[i].name] >= 75 )
       /\ (pc[p] = "cancel_commit" /\ Returns(p)) =>
            \A i \in ResIds :
              i # req[p].target => reservations'[i] = reservations[i]
    ]_vars

\* C11 witness: one caller was told "not found" for a name that scores below
\* 75 against the confirmed reservation in the book, another for an id that
\* no reservation has.
CancelNotFoundWitness ==
  \E p \in Procs, q \in Procs :
    /\ pc[p] = "done" /\ ret[p].op = "cancel_name" /\ ret[p].reason = "not_found"
    /\ pc[q] = "done" /\ ret[q].op = "cancel_id" /\ ret[q].reason = "not_found"
    /\ \E i \in ResIds : Confirmed(i)

\* the table of the reservation a returned, successful cancel names is
\* listed as available for that reservation's slot to every party it seats,
\* if it is active and no confirmed reservation holds it at that slot
CancelledTableIsFree ==
  \A p \in Procs :
    (pc[p] = "done" /\ ret[p].op \in {"cancel_id", "cancel_name"} /\ ret[p].success) =>
      /\ ret[p].id \in ResIds
      /\ LET r == reservations[ret[p].id]
             T == r.assigned_table_id
         IN  /\ r.status = "cancelled"
             /\ \A party_size \in Parties :
                  ( /\ party_size <= tables[T].capacity
                    /\ tables[T].is_active
                    /\ \A i \in ResIds :
                         ~(Confirmed(i) /\ SameSlot(i, ret[p].id)
                             /\ reservations[i].assigned_table_id = T) )
                  => LET a == check_availability(party_size, r.date, r.time)
                     IN  a.available /\ T \in Range(a.available_tables)

\* the step in which a cancel succeeds keeps every record and changes
\* nothing but the status of its target
CancelKeepsRecord ==
  \A p \in Procs :
    (pc[p] = "cancel_commit" /\ Returns(p) /\ ret'[p].success) =>
      /\ ret'[p].id = req[p].target
      /\ reservations' =
           [reservations EXCEPT ![req[p].target].status = "cancelled"]

\* C12: right after cancel_reservation succeeds on a confirmed reservation
\* assigned to table T at (date, time), the record is still there with
\* status 'cancelled' and check_availability for that slot, for any party
\* that fits T, lists T among the available tables, provided T is active
\* and no other confirmed reservation holds it at that slot.
CancelFreesTable ==
  []CancelledTableIsFree /\ [][CancelKeepsRecord]_vars

\* C12 witness: a caller has cancelled by name the reservation the other
\* caller had just created (so it was confirmed when it was cancelled); it is
\* in the book as cancelled and its table is listed as available for its
\* slot again.
CancelFreesTableWitness ==
  \E p \in Procs, q \in Procs :
    /\ pc[p] = "done" /\ ret[p].op = "cancel_name" /\ ret[p].success
    /\ pc[q] = "done" /\ ret[q].op = "create" /\ ret[q].success
    /\ ret[q].id = ret[p].id
    /\ LET r == reservations[ret[p].id]
       IN  /\ r.status = "cancelled"
           /\ r.assigned_table_id \in
                Range(check_availability(r.party_size, r.date, r.time).available_tables)

\* an active table seats the party
HasTableFor(party_size) ==
  \E t \in TableIds : tables[t].is_active /\ tables[t].capacity >= party_size

\* the answer to a party no active table seats
NoTableAnswerIsFixed ==
  \A party_size \in Parties, date \in Dates, time \in SuggestTimes :
    ~HasTableFor(party_size) =>
      check_availability(party_size, date, time) =
        [available |-> FALSE, reason |-> "no_table_large_enough",
         available_tables |-> <<>>, suggested_alternatives |-> <<>>]

\* the loop of the Suggester is entered for a party some table seats only,
\* and the no-table answer comes straight from the first step of the call
NoTableSkipsSuggester ==
  \A p \in Procs :
    /\ (pc[p] = "idle" /\ pc'[p] = "suggest") => HasTableFor(req'[p].party_size)
    /\ (Returns(p) /\ ret'[p].reason = "no_table_large_enough") =>
         /\ pc[p] = "idle"
         /\ req[p].examined = <<>>
         /\ ~ret'[p].success
         /\ ret'[p].suggested_alternatives = <<>>

\* C13: if no active table has capacity >= party_size, check_availability
\* answers available=False with the 'no table large enough' reason and no
\* suggested alternatives, whatever the bookings, and without running the
\* Suggester.
NoTableAnswer ==
  []NoTableAnswerIsFixed /\ [][NoTableSkipsSuggester]_vars

\* C13 witness: a party of seven was told that no table is large enough,
\* in a room whose book holds a confirmed reservation.
NoTableAnswerWitness ==
  /\ pc[Asker] = "done" /\ ret[Asker].op = "check"
  /\ ret[Asker].reason = "no_table_large_enough"
  /\ \E i \in ResIds : Confirmed(i)

\* the answer to a party whose every table is taken at the requested slot
FullyBookedAnswerIsSuggesters ==
  \A party_size \in Parties, date \in Dates, time \in SuggestTimes :
    (HasTableFor(party_size) /\ FreeTables(party_size, date, time) = {}) =>
      check_availability(party_size, date, time) =
        [available |-> FALSE, reason |-> "fully_booked",
         available_tables |-> <<>>,
         suggested_alternatives |-> suggest_alternative_times(date, time, party_size)]

\* the call enters the Suggester exactly on a fully booked slot and returns
\* what the Suggester collected
FullyBookedDelegates ==
  \A p \in Procs :
    /\ (pc[p] = "idle" /\ pc'[p] = "suggest") =>
         /\ HasTableFor(req'[p].party_size)
         /\ FreeTables(req'[p].party_size, req'[p].date, req'[p].time) = {}
    /\ (pc[p] = "idle" /\ Returns(p) /\ ret'[p].op = "check" /\ ret'[p].success) =>
         /\ ret'[p].available_tables # <<>>
         /\ \E party_size \in Parties, date \in Dates, time \in SuggestTimes :
              Range(ret'[p].available_tables) = FreeTables(party_size, date, time)
    /\ (pc[p] = "suggest" /\ Returns(p)) =>
         /\ ~ret'[p].success
         /\ ret'[p].reason = "fully_booked"
         /\ ret'[p].suggested_alternatives = req[p].alternatives
    /\ (Returns(p) /\ ret'[p].op = "check" /\ ret'[p].reason = "fully_booked") =>
         pc[p] = "suggest"

\* C14: if some active table has capacity >= party_size but every such
\* table is assigned to a confirmed reservation at the requested date and
\* time, check_availability answers available=False with the fully-booked
\* reason and, as suggested_alternatives, the output of the Suggester for
\* that date, time and party size.
FullyBookedAnswer ==
  []FullyBookedAnswerIsSuggesters /\ [][FullyBookedDelegates]_vars

\* C14 witness: a check of a fully booked slot has returned the two times
\* the Suggester found.
FullyBookedAnswerWitness ==
  /\ pc[Asker] = "done" /\ ret[Asker].op = "check"
  /\ ret[Asker].reason = "fully_booked"
  /\ Len(ret[Asker].suggested_alternatives) = 2

\* minutes between two times of day
Dist(t, u) ==
  IF ParseTime(t) >= ParseTime(u) THEN ParseTime(t) - ParseTime(u)
  ELSE ParseTime(u) - ParseTime(t)

\* a list of times ordered by closeness to the requested time
ClosestFirst(times, requested_time) ==
  \A i \in 1..Len(times), j \in 1..Len(times) :
    i < j => Dist(times[i], requested_time) <= Dist(times[j], requested_time)

\* C15: suggest_alternative_times tries the candidate times in order of
\* closeness to the requested time (+/-30 before +/-60 before +/-90), so
\* the candidates it examines and the list it returns are ordered
\* closest-first.
SuggestsClosestFirst ==
  [][\A p \in Procs :
       (pc[p] = "suggest" /\ Returns(p)) =>
         /\ ClosestFirst(req[p].examined, req[p].time)
         /\ ClosestFirst(ret'[p].suggested_alternatives, req[p].time)
    ]_vars

\* C16: every time suggest_alternative_times returns has its hour in
\* [17, 22): a candidate whose hour is below 17 or at or after 22 is neither
\* examined nor returned, whatever the bookings; for a requested time of
\* 22:30 nothing at or after 22:00 is examined or returned.
SuggestsWithinHours ==
  [][\A p \in Procs :
       /\ pc'[p] = "suggest" =>
            \A i \in 1..Len(req'[p].examined) :
              req'[p].examined[i][1] >= 17 /\ req'[p].examined[i][1] < 22
       /\ pc'[p] = "suggest" =>
            Range(req'[p].alternatives) \subseteq Range(req'[p].examined)
       /\ (pc[p] = "suggest" /\ Returns(p)) =>
            \A i \in 1..Len(ret'[p].suggested_alternatives) :
              /\ ret'[p].suggested_alternatives[i][1] >= 17
              /\ ret'[p].suggested_alternatives[i][1] < 22
    ]_vars

\* C16 witness: asked for 22:30, the Suggester has gone through all six
\* candidates, examined 21:00 and 21:30 only and returned them, although the
\* table is free at 22:00 too.
SuggestsWithinHoursWitness ==
  /\ pc[Asker] = "suggest"
  /\ req[Asker].time = <<22, 30>>
  /\ req[Asker].k > Len(time_offsets)
  /\ req[Asker].examined = << <<21, 0>>, <<21, 30>> >>
  /\ req[Asker].alternatives = << <<21, 0>>, <<21, 30>> >>
  /\ available_tables(req[Asker].party_size, req[Asker].date, <<22, 0>>) # <<>>

\* C17: suggest_alternative_times returns at most three times, examines no
\* candidate once three are accepted, and each time it returns had, when it
\* was examined, an active table of capacity >= party_size that no
\* confirmed reservation held at that date and time.
SuggestsAtMostThreeFree ==
  [][\A p \in Procs :
       /\ (pc[p] = "suggest" /\ pc'[p] = "suggest"
              /\ req'[p].examined # req[p].examined) =>
            /\ Len(req[p].alternatives) < 3
            /\ Len(req'[p].alternatives) <= 3
       /\ (pc[p] = "suggest" /\ pc'[p] = "suggest"
              /\ req'[p].alternatives # req[p].alternatives) =>
            LET t == req'[p].examined[Len(req'[p].examined)]
            IN  /\ req'[p].alternatives = Append(req[p].alternatives, t)
                /\ req'[p].examined = Append(req[p].examined, t)
                /\ FreeTables(req[p].party_size, req[p].date, t) # {}
       /\ (pc[p] = "suggest" /\ Returns(p)) =>
            /\ Len(ret'[p].suggested_alternatives) <= 3
            /\ ret'[p].suggested_alternatives = req[p].alternatives
    ]_vars

\* C17 witness: the Suggester has accepted three times and stopped with
\* three candidates left, after it had examined and rejected a booked one.
SuggestsAtMostThreeFreeWitness ==
  /\ pc[Asker] = "suggest"
  /\ Len(req[Asker].alternatives) = 3
  /\ Len(req[Asker].examined) = 4
  /\ req[Asker].k > Len(time_offsets)

\* p takes a step of check_availability or of its Suggester
CheckStep(p) ==
  \/ pc[p] = "suggest" /\ (pc'[p] # pc[p] \/ req'[p] # req[p])
  \/ pc[p] = "idle" /\ pc'[p] = "suggest"
  \/ pc[p] = "idle" /\ Returns(p) /\ ret'[p].op = "check"

\* C18: check_availability and suggest_alternative_times never modify a
\* reservation or a table: every step of theirs leaves the reservations and
\* the tables as they were (so a suggested slot is not held, and another
\* caller can book it first).
CheckingWritesNothing ==
  [][\A p \in Procs :
       CheckStep(p) => (reservations' = reservations /\ tables' = tables)
    ]_vars

\* C18 witness: the asker was told 17:00 is fully booked and offered 17:30,
\* and the other caller has since booked the only table at 17:30.
CheckingWritesNothingWitness ==
  /\ pc[Asker] = "done" /\ ret[Asker].op = "check"
  /\ ret[Asker].reason = "fully_booked"
  /\ pc[Booker] = "done" /\ ret[Booker].op = "create" /\ ret[Booker].success
  /\ Confirmed(ret[Booker].id)
  /\ reservations[ret[Booker].id].time \in Range(ret[Asker].suggested_alternatives)

\* what a returned get_reservations call with a name found: every confirmed
\* reservation that passes the date filter and scores >= 75, each once
GetFindsMatches ==
  \A p \in Procs :
    (pc[p] = "done" /\ ret[p].op = "get" /\ ret[p].args[2] # NoName) =>
      LET date == ret[p].args[1]
          name == ret[p].args[2]
          wanted == { i \in ResIds :
                        /\ reservations[i].status = "confirmed"
                        /\ date # NoDate => reservations[i].date = date
                        /\ SimTable[name][reservations[i].name] >= 75 }
      IN  /\ Range(ret[p].found) = wanted
          /\ Len(ret[p].found) = Cardinality(wanted)

\* the step in which get_reservations returns changes no reservation
GetChangesNothing ==
  \A p \in Procs :
    (Returns(p) /\ ret'[p].op = "get") =>
      (reservations' = reservations /\ tables' = tables)

\* C19: get_reservations with a name returns every confirmed reservation
\* that passes the optional date filter and whose similarity with the name
\* is >= 75, and no other (no cancelled or completed one, not the best match
\* only), and changes no reservation.
GetReturnsAllMatches ==
  []GetFindsMatches /\ [][GetChangesNothing]_vars

\* C19 witness: a lookup of 'ragi' without a date has returned two
\* reservations under different names, one scoring 100 and one 75.
GetReturnsAllMatchesWitness ==
  /\ pc[Asker] = "done" /\ ret[Asker].op = "get"
  /\ ret[Asker].args = <<NoDate, <<"r","a","g","i">> >>
  /\ ret[Asker].found = <<1, 2>>
  /\ reservations[1].name = <<"r","a","j","i">>
  /\ reservations[2].name = <<"R","a","g","i">>

\* a name lower-cased, its periods and spaces removed
NormalForm(s) ==
  LET kept == SelectSeq(s, LAMBDA c : c # "." /\ c # " ")
  IN  [i \in 1..Len(kept) |-> Lower(kept[i])]

\* the larger of the full-string and the partial similarity of the normal
\* forms of every pair of names, computed once
NormalScore ==
  [s \in SearchNames |-> [d \in StoredNames |->
     LET r == fuzz_ratio(NormalForm(s), NormalForm(d))
         q == fuzz_partial_ratio(NormalForm(s), NormalForm(d))
     IN  IF r >= q THEN r ELSE q]]

\* C20: fuzzy_match_name treats names as equal up to case, periods and
\* spaces: for a search name and a stored name with the same normal form
\* the similarity is 100 and the names match at the default threshold 75;
\* and a pair matches exactly when the larger of the full-string and the
\* partial similarity of the normal forms is >= the threshold.
FuzzyMatchNormalises ==
  \A p \in Procs :
    (pc[p] = "done" /\ ret[p].op = "match") =>
      LET search_name == ret[p].args[1]
          database_name == ret[p].args[2]
          threshold == ret[p].args[3]
      IN  /\ NormalForm(search_name) = NormalForm(database_name) =>
               /\ Similarity(search_name, database_name) = 100
               /\ threshold = 75 => ret[p].success
          /\ ret[p].success <=> NormalScore[search_name][database_name] >= threshold

\* C20 witness: fuzzy_match_name('R a g. I', 'Ragi', 75) has returned True.
FuzzyMatchNormalisesWitness ==
  /\ pc[Asker] = "done" /\ ret[Asker].op = "match"
  /\ ret[Asker].args = << <<"R"," ","a","g","."," ","I">>, <<"R","a","g","i">>, 75 >>
  /\ ret[Asker].success

\* a date in YYYY-MM-DD form
WellFormedDate(date) == date \in {"d1", "d2"}

\* C21: a create_reservation or check_availability request with a malformed
\* argument (party_size below 1, a date not YYYY-MM-DD, a time not HH:MM)
\* never reaches storage: no persisted reservation has such a value.
OnlyWellFormedPersisted ==
  \A i \in ResIds :
    /\ reservations[i].party_size >= 1
    /\ WellFormedDate(reservations[i].date)
    /\ WellFormedTime(reservations[i].time)

\* the rows of a table that belong to a call
RowsOf(rows, call_sid) == { i \in 1..Len(rows) : rows[i].call_sid = call_sid }

\* C22: a call's tracker is finalized and handed to storage exactly once, at
\* call end: whatever /voice, /process-speech and /call-ended requests came
\* before, a /call-ended request for a tracked call writes that call's
\* CallMetrics row and its turns, once, and removes the tracker from
\* active_trackers.
FinalizedExactlyOnce ==
  [][\A form \in Forms :
       (Ended(Asker, form) /\ call_sid_of(form) \in DOMAIN active_trackers) =>
         LET call_sid == call_sid_of(form)
             tracker == active_trackers[call_sid]
         IN  /\ call_sid \notin DOMAIN active_trackers'
             /\ Len(call_metrics') = Len(call_metrics) + 1
             /\ Cardinality(RowsOf(call_metrics', call_sid)) = 1
             /\ Cardinality(RowsOf(conversation_turns', call_sid)) =
                  Len(tracker.conversation_turns)]_vars

\* C23: the tracker and the conversation of one call are not touched by the
\* handler of another call: a request of one caller leaves every tracker
\* that was started for another caller, and the conversation under the same
\* call id, as they are.
CallsAreIsolated ==
  [][\A form \in Forms :
       (VoiceCall(Asker, form) \/ Speech(Asker, form) \/ Ended(Asker, form)) =>
         \A call_sid \in DOMAIN active_trackers :
           active_trackers[call_sid].caller_phone # form.From =>
             /\ call_sid \in DOMAIN active_trackers'
             /\ active_trackers'[call_sid] = active_trackers[call_sid]
             /\ call_sid \in DOMAIN conversations =>
                  /\ call_sid \in DOMAIN conversations'
                  /\ conversations'[call_sid] = conversations[call_sid]]_vars

\* the five dimension scores of a CallQuality record
DimensionScores(row) ==
  { row.efficiency_score, row.accuracy_score, row.helpfulness_score,
    row.naturalness_score, row.professionalism_score }

\* C24: each of the five dimension scores analyze_call_quality produces lies
\* in 0..100, whatever the metrics, the transcript and the replies of the
\* scoring collaborator.
QualityScoresInRange ==
  \A i \in 1..Len(call_quality) :
    \A score \in DimensionScores(call_quality[i]) : 0 <= score /\ score <= 100

\* the helpfulness score as stated: the duration test covers every duration
\* below 30 seconds, 0 included
StatedHelpfulness(metrics) ==
  IF metrics.booking_completed THEN 100
  ELSE IF metrics.user_hung_up_early THEN 0
  ELSE IF metrics.total_duration_sec < 30 THEN 20
  ELSE IF metrics.intent_fulfilled THEN 60
  ELSE 50

\* C25: the helpfulness score of an analysed call is 100 if the booking was
\* completed, else 0 if the caller hung up early, else 20 if the call lasted
\* less than 30 seconds (0 seconds included), else 60 if the intent was
\* fulfilled, else 50.
HelpfulnessAsStated ==
  \A i \in 1..Len(call_quality) :
    call_quality[i].helpfulness_score =
      StatedHelpfulness(metrics_of(call_metrics, call_quality[i].call_sid))

\* the response of a successful analyze_call_quality
Analysed(p) == pc[p] = "done" /\ ret[p].op = "analyze" /\ ret[p].success

\* what a CallQuality record holds beside the time of the analysis
Scored(row) == [row EXCEPT !.analyzed_at = 0]

\* there is at most one record for a call, and after an analysis has
\* returned the record of its call holds what it returned
OneQualityRecord ==
  /\ \A call_sid \in {AnalysedCall, OtherCall, UnknownCall} :
       Cardinality(RowsOf(call_quality, call_sid)) <= 1
  /\ \A p \in Procs :
       Analysed(p) =>
         LET result == ret[p].found[1]
         IN  /\ Cardinality(RowsOf(call_quality, result.call_sid)) = 1
             /\ LET row == call_quality[quality_index(result.call_sid)]
                IN  /\ row.efficiency_score = result.dimensions.efficiency
                    /\ row.accuracy_score = result.dimensions.accuracy
                    /\ row.helpfulness_score = result.dimensions.helpfulness
                    /\ row.naturalness_score = result.dimensions.naturalness
                    /\ row.professionalism_score = result.dimensions.professionalism
                    /\ row.overall_score = result.overall_score
                    /\ row.quality_tier = result.quality_tier

\* an analysis of a call that has a record adds none and leaves the records
\* of the other calls alone; with the inputs of the analysis before it, it
\* leaves the scores, the overall score and the tier as they were
RerunReplaces ==
  \A p \in Procs :
    (call_quality' # call_quality /\ Analysed(p)' /\ HasQuality(ret'[p].args[1])) =>
      LET call_sid == ret'[p].args[1]
          i == quality_index(call_sid)
      IN  /\ Len(call_quality') = Len(call_quality)
          /\ \A j \in 1..Len(call_quality) : j # i => call_quality'[j] = call_quality[j]
          /\ call_quality'[i].call_sid = call_sid
          /\ (Analysed(p) /\ ret[p].args = ret'[p].args) =>
               Scored(call_quality'[i]) = Scored(call_quality[i])

\* C28: analyze_call_quality on a call that has a CallQuality record replaces
\* the values of that record and adds none: there is one record for the call
\* after any number of runs, and a run with the inputs of the run before it
\* (metrics, transcript, collaborator answers) leaves the five scores, the
\* overall score and the tier unchanged.
RescoringReplaces == []OneQualityRecord /\ [][RerunReplaces]_vars

\* C28 witness: the call has been analysed a second time with the inputs of
\* the first run: its one record carries the time of the second analysis.
RescoringReplacesWitness ==
  /\ Analysed(Asker)
  /\ ret[Asker].args = <<AnalysedCall, TRUE, TRUE,
                         [kind |-> "score", score |-> 40],
                         [kind |-> "score", score |-> 40]>>
  /\ Cardinality(RowsOf(call_quality, AnalysedCall)) = 1
  /\ call_quality[quality_index(AnalysedCall)].analyzed_at = 2
  /\ call_quality[quality_index(AnalysedCall)].naturalness_score = 40

\* the collaborator gave no answer to a request: the API raised, or the
\* reply is not JSON
NoAnswer(reply) == reply.kind \in {"raises", "unparsable"}

\* C29: if the scoring collaborator is unavailable (no API key, a failed
\* call, an unparsable reply) or the transcript is empty, the naturalness
\* score and the professionalism score are 75.
DefaultsWhenUnavailable ==
  \A p \in Procs :
    Analysed(p) =>
      LET call_sid == ret[p].args[1]
          api_key == ret[p].args[3]
          naturalness_reply == ret[p].args[4]
          professionalism_reply == ret[p].args[5]
          empty == turns_of(conversation_turns, call_sid) = <<>>
          row == call_quality[quality_index(call_sid)]
      IN  /\ (empty \/ ~api_key \/ NoAnswer(naturalness_reply)) =>
               /\ ret[p].found[1].dimensions.naturalness = 75
               /\ row.naturalness_score = 75
          /\ (empty \/ ~api_key \/ NoAnswer(professionalism_reply)) =>
               /\ ret[p].found[1].dimensions.professionalism = 75
               /\ row.professionalism_score = 75

\* C29 witness: an analysis with the API key set whose two requests got no
\* answer, one raising and one with a reply that is not JSON, on a call with
\* a transcript, has returned with both scores at 75.
DefaultsWhenUnavailableWitness ==
  /\ Analysed(Asker)
  /\ ret[Asker].args = <<AnalysedCall, TRUE, TRUE,
                         [kind |-> "unparsable", score |-> 0],
                         [kind |-> "raises", score |-> 0]>>
  /\ turns_of(conversation_turns, AnalysedCall) # <<>>
  /\ ret[Asker].found[1].dimensions.naturalness = 75
  /\ ret[Asker].found[1].dimensions.professionalism = 75

\* the user turns of a transcript that hold one of the keywords
TurnsWith(turns, keywords) ==
  { i \in 1..Len(turns) :
      turns[i].speaker = "user" /\ ContainsAny(turns[i].transcript, keywords) }

\* the accuracy score as stated: 75 without a transcript, else 100 less 15
\* for each user turn with a correction, plus 5 for each user turn with a
\* confirmation up to 20, clamped to 0..100
StatedAccuracy(turns) ==
  LET penalty == 15 * Cardinality(TurnsWith(turns, correction_keywords))
      earned == 5 * Cardinality(TurnsWith(turns, confirmation_keywords))
      bonus == IF earned > 20 THEN 20 ELSE earned
      score == 100 - penalty + bonus
  IN  IF turns = <<>> THEN 75
      ELSE IF score < 0 THEN 0 ELSE IF score > 100 THEN 100 ELSE score

\* C26: calculate_accuracy_score starts at 100, subtracts 15 once for each
\* user turn with at least one correction keyword, adds 5 for each user turn
\* with a confirmation keyword up to a bonus of 20, clamps the result to
\* 0..100, and returns 75 when the call has no transcript.
AccuracyAsStated ==
  \A p \in Procs :
    (pc[p] = "done" /\ ret[p].op = "accuracy") =>
      ret[p].found[1] = StatedAccuracy(turns_of(conversation_turns, ret[p].args[1]))

\* twenty times the weighted sum 0.30 accuracy + 0.25 helpfulness +
\* 0.20 efficiency + 0.15 naturalness + 0.10 professionalism, a whole number
Twentieths(scores) ==
  6 * scores.accuracy + 5 * scores.helpfulness + 4 * scores.efficiency
    + 3 * scores.naturalness + 2 * scores.professionalism

\* the tier of the weighted sum, each lower bound inclusive
StatedTier(scores) ==
  IF Twentieths(scores) >= 20 * 90 THEN "Excellent"
  ELSE IF Twentieths(scores) >= 20 * 75 THEN "Great"
  ELSE IF Twentieths(scores) >= 20 * 60 THEN "Good"
  ELSE IF Twentieths(scores) >= 20 * 40 THEN "Fair"
  ELSE "Poor"

\* the scores of the example: 93.5 and Excellent
ExampleScores ==
  [efficiency |-> 90, accuracy |-> 100, helpfulness |-> 100,
   naturalness |-> 80, professionalism |-> 85]

\* C27: the overall score is 0.30 accuracy + 0.25 helpfulness + 0.20
\* efficiency + 0.15 naturalness + 0.10 professionalism and the tier is
\* Excellent from 90, Great from 75, Good from 60, Fair from 40, else Poor,
\* each lower bound inclusive (the example gives 93.5 and Excellent); the
\* analyzer and the generator of synthetic calls compute the same overall
\* score and tier for the same five scores.
OverallAsStated ==
  \A p \in Procs :
    (pc[p] = "done" /\ ret[p].op = "overall") =>
      LET scores == ret[p].args[1]
          analyzer == ret[p].found[1]
          synthetic == ret[p].found[2]
      IN  /\ analyzer.tier = StatedTier(scores)
          /\ synthetic = analyzer
          /\ scores = ExampleScores =>
               analyzer.overall = <<0, 0, 187 * 2^11>> /\ analyzer.tier = "Excellent"

\* the dashboard has answered
Compared(p) == pc[p] = "done" /\ ret[p].op = "ab_testing"

\* C30: with two variants that each have at least 30 scored calls,
\* approximated degrees of freedom above 30 and |t| > 1.96 between the
\* top-ranked variant and the lower one, the lower variant is flagged
\* is_significant.
SignificantAbove196 ==
  \A p \in Procs :
    (Compared(p) /\ Len(ret[p].found) = 2) =>
      LET best == ret[p].found[1].quality_scores
          other == ret[p].found[2].quality_scores
      IN  (/\ Len(best) >= 30
           /\ Len(other) >= 30
           /\ SquaredError(best, other).n # 0
           /\ DfAbove30(best, other)
           /\ Above196(SquaredT(best, other))) =>
            ret[p].found[2].is_significant

\* C31: a variant is never flagged is_significant unless it and the
\* top-ranked variant both have at least 30 quality scores; with 10 calls in
\* each variant is_significant stays False whatever the quality gap.
SignificantNeedsThirty ==
  \A p \in Procs :
    Compared(p) =>
      \A i \in 1..Len(ret[p].found) :
        ret[p].found[i].is_significant =>
          /\ Len(ret[p].found[1].quality_scores) >= 30
          /\ Len(ret[p].found[i].quality_scores) >= 30

\* C31 witness: the dashboard has compared two variants of 10 calls each
\* whose mean scores are 91 and 71, and flagged neither.
SignificantNeedsThirtyWitness ==
  /\ Compared(Asker)
  /\ Len(ret[Asker].found) = 2
  /\ ret[Asker].found[1].quality_scores = Sample(10, 5, 90, 92)
  /\ ret[Asker].found[2].quality_scores = Sample(10, 5, 70, 72)
  /\ ~ret[Asker].found[2].is_significant

\* the mean of a list of scores
MeanOf(scores) == Fr(SumOf(scores), Len(scores))

\* C32: the variants are ranked by mean overall quality, descending; only
\* the top-ranked variant can be flagged is_winner, and only when it has at
\* least 30 quality scores; no other variant is ever flagged is_winner.
RankedAndOneWinner ==
  \A p \in Procs :
    Compared(p) =>
      LET stats == ret[p].found
      IN  /\ \A i \in 1..(Len(stats) - 1) :
               ~FrGt(MeanOf(stats[i + 1].quality_scores), MeanOf(stats[i].quality_scores))
          /\ { stats[i].name : i \in 1..Len(stats) } =
               { call_metrics[j].prompt_version : j \in 1..Len(call_metrics) }
          /\ \A i \in 1..Len(stats) :
               stats[i].is_winner => (i = 1 /\ Len(stats[i].quality_scores) >= 30)

\* C32 witness: the variant whose calls come second in the table has the
\* higher mean and 35 scores: it is ranked first and flagged is_winner, and
\* the other is not.
RankedAndOneWinnerWitness ==
  /\ Compared(Asker)
  /\ Len(ret[Asker].found) = 2
  /\ call_metrics[1].prompt_version = ret[Asker].found[2].name
  /\ FrGt(MeanOf(ret[Asker].found[1].quality_scores),
          MeanOf(ret[Asker].found[2].quality_scores))
  /\ Len(ret[Asker].found[1].quality_scores) = 35
  /\ ret[Asker].found[1].is_winner
  /\ ~ret[Asker].found[2].is_winner

\* a confirmed reservation of the book holds table t at (date, time)
BookedIn(book, t, date, time) ==
  \E i \in 1..Len(book) :
    /\ book[i].status = "confirmed"
    /\ book[i].assigned_table_id = t
    /\ book[i].date = date
    /\ book[i].time = time

\* C33: a table assigned to a confirmed reservation at (date, time) stays
\* unavailable for that slot until that reservation is cancelled: when a
\* table goes from booked to free for a slot in a step, the step is a
\* successful cancel_reservation of the confirmed reservation that held it.
BookedUntilCancelled ==
  [][\A i \in ResIds :
       LET r == reservations[i]
       IN  (/\ Confirmed(i)
            /\ ~BookedIn(reservations', r.assigned_table_id, r.date, r.time)) =>
             \E p \in Procs :
               /\ pc[p] = "cancel_commit"
               /\ req[p].target = i
               /\ Returns(p)
               /\ ret'[p].success
               /\ ret'[p].id = i
    ]_vars

AssignedTableFits ==
  \A i \in ResIds :
    Confirmed(i) =>
      /\ reservations[i].assigned_table_id \in TableIds
      /\ tables[reservations[i].assigned_table_id].is_active
      /\ tables[reservations[i].assigned_table_id].capacity >= reservations[i].party_size

\* C35 witness: two create_reservation calls have succeeded, one of the
\* reservations has been cancelled since and the other is still confirmed at
\* a table that is larger than its party, while a table too small for the
\* party and a retired one that would seat it exist.
AssignedTableFitsWitness ==
  \E p \in Procs, q \in Procs :
    /\ p # q
    /\ pc[p] = "done" /\ ret[p].op = "create" /\ ret[p].success
    /\ pc[q] = "done" /\ ret[q].op = "cancel_name" /\ ret[q].success
    /\ \E i \in ResIds, j \in ResIds :
         /\ Confirmed(i)
         /\ reservations[j].status = "cancelled"
         /\ tables[reservations[i].assigned_table_id].capacity > reservations[i].party_size
         /\ \E t \in TableIds : tables[t].capacity < reservations[i].party_size
         /\ \E t \in TableIds : ~tables[t].is_active
                                 /\ tables[t].capacity >= reservations[i].party_size

\* a step of process_speech in which a create_reservation tool call made for
\* call_sid, first-level or chained, returns success: the reservation is in
\* the book
CreateSucceeds(call_sid) ==
  \E p \in Procs :
    /\ pc[p] \in {"respond", "followup"}
    /\ pc'[p] \in {"respond", "followup"}
    /\ req[p].call_sid = call_sid
    /\ Len(req'[p].executed) = Len(req[p].executed) + 1
    /\ LET block == IF pc[p] = "respond" THEN req[p].response.content[req[p].k]
                    ELSE req[p].followup.content[req[p].j]
       IN  block.name = "create_reservation"
    /\ Len(reservations') = Len(reservations) + 1
    /\ reservations'[Len(reservations')].status = "confirmed"

\* C36: in every state of a call's tracker booking_completed implies
\* intent_fulfilled; a tracker starts with booking_completed false, and in
\* every step booking_completed is true afterwards exactly when it was true
\* before or a create_reservation tool call of that call, first-level or
\* chained, returned success in the step, so it is true exactly when some
\* such call has succeeded and it is never reset.
BookingCompletedTracksCreate ==
  /\ [](\A c \in DOMAIN active_trackers :
          active_trackers[c].booking_completed => active_trackers[c].intent_fulfilled)
  /\ [][\A c \in DOMAIN active_trackers' :
          IF c \in DOMAIN active_trackers
          THEN active_trackers'[c].booking_completed <=>
                 (active_trackers[c].booking_completed \/ CreateSucceeds(c))
          ELSE ~active_trackers'[c].booking_completed
       ]_vars

\* C36 witness: process_speech has returned after a look at the availability
\* at the first level and a chained create_reservation that succeeded, and
\* the tracker of the call holds booking_completed.
BookingCompletedTracksCreateWitness ==
  /\ pc[Asker] = "done"
  /\ ret[Asker].op = "speech"
  /\ ret[Asker].found = << <<2>>, <<2, 1>> >>
  /\ Len(reservations) = 1
  /\ active_trackers[call_sid_of(TheCall)].total_latency_ms = 3 * 1500
  /\ InProgress
  /\ active_trackers[call_sid_of(TheCall)].booking_completed
  /\ active_trackers[call_sid_of(TheCall)].intent_fulfilled

\* the entries of a transcript that speaker made
SpokenBy(turns, speaker) ==
  Cardinality({ i \in 1..Len(turns) : turns[i].speaker = speaker })

\* C37: in every state of a call's tracker user_turns is the number of
\* 'user' entries and agent_turns the number of 'agent' entries of
\* conversation_turns, and clarifications_needed <= user_turns; a step only
\* appends to the conversation_turns of a tracker; and when finalize_call
\* saves the call, the rows it adds carry turn_number 1..n and the speaker
\* and transcript of the entries in the order they were appended.
TranscriptMatchesCounters ==
  /\ [](\A c \in DOMAIN active_trackers :
          LET t == active_trackers[c]
          IN  /\ t.user_turns = SpokenBy(t.conversation_turns, "user")
              /\ t.agent_turns = SpokenBy(t.conversation_turns, "agent")
              /\ t.user_turns + t.agent_turns = Len(t.conversation_turns)
              /\ t.clarifications_needed <= t.user_turns)
  /\ [][\A c \in (DOMAIN active_trackers) \cap (DOMAIN active_trackers') :
          LET before == active_trackers[c].conversation_turns
              after == active_trackers'[c].conversation_turns
          IN  /\ Len(before) <= Len(after)
              /\ SubSeq(after, 1, Len(before)) = before
       ]_vars
  /\ [][\A c \in DOMAIN active_trackers :
          (HasMetrics(call_metrics', c) /\ ~HasMetrics(call_metrics, c)) =>
            LET turns == active_trackers[c].conversation_turns
                rows == SubSeq(conversation_turns', Len(conversation_turns) + 1,
                               Len(conversation_turns'))
            IN  /\ SubSeq(conversation_turns', 1, Len(conversation_turns)) =
                     conversation_turns
                /\ Len(rows) = Len(turns)
                /\ \A i \in 1..Len(turns) :
                     /\ rows[i].call_sid = c
                     /\ rows[i].turn_number = i
                     /\ rows[i].speaker = turns[i].speaker
                     /\ rows[i].transcript = turns[i].transcript
       ]_vars

\* C37 witness: a call of three turns has been saved: the greeting, a
\* caller who asks "What" and counts as one clarification, and the answer;
\* the rows are numbered 1, 2, 3.
TranscriptMatchesCountersWitness ==
  /\ pc[Asker] = "done"
  /\ ret[Asker].op = "call_ended"
  /\ Len(call_metrics) = 1
  /\ call_metrics[1].clarifications_needed = 1
  /\ call_metrics[1].user_turns = 1
  /\ call_metrics[1].agent_turns = 2
  /\ Len(conversation_turns) = 3
  /\ conversation_turns[1].speaker = "agent"
  /\ conversation_turns[2].speaker = "user"
  /\ conversation_turns[2].transcript = <<"W","h","a","t">>
  /\ conversation_turns[3].turn_number = 3

\* p is inside process_speech
Handling(p) == pc[p] \in {"respond", "followup"}

\* process_speech, once started, returns
SpeechReturns == \A p \in Procs : Handling(p) ~> (pc[p] = "done")

\* no tool has run that the language model did not request in its first
\* response or in a follow-up: no tool has run at a depth above two
DepthAtMostTwo ==
  \A p \in Procs :
    Handling(p) =>
      \A i \in 1..Len(req[p].executed) :
        /\ req[p].executed[i] \in req[p].requested
        /\ Len(req[p].executed[i]) <= 2
        /\ \A x \in 1..Len(req[p].executed) : req[p].executed[x] = req[p].executed[i] => x = i

\* process_speech returns in this step
Finishes(p) == pc[p] = "respond" /\ pc'[p] = "done"

\* C38 as stated: handling one utterance terminates; every tool requested in
\* the first response has been executed, every tool requested in a follow-up
\* response has been executed as a chained call, no tool requested in a
\* final response has been executed, and no tool runs at depth above two.
ChainRunsEveryRequest ==
  /\ SpeechReturns
  /\ []DepthAtMostTwo
  /\ [][\A p \in Procs :
          Finishes(p) =>
            \A id \in req[p].requested :
              /\ Len(id) = 1 => id \in Range(req[p].executed)
              /\ Len(id) = 2 => id \in Range(req[p].executed)
              /\ Len(id) = 3 => id \notin Range(req[p].executed)
       ]_vars

\* C38, amended: handling one utterance terminates; every tool requested in
\* the first response has been executed; a tool requested in a follow-up
\* response has been executed as a chained call unless an earlier chained
\* call of the same follow-up raised, in which case the except branch left
\* the follow-up and the tool was not run; no tool requested in a final
\* response has been executed, and no tool runs at depth above two.
ChainIsBounded ==
  /\ SpeechReturns
  /\ []DepthAtMostTwo
  /\ [][\A p \in Procs :
          Finishes(p) =>
            \A id \in req[p].requested :
              /\ Len(id) = 1 => id \in Range(req[p].executed)
              /\ Len(id) = 2 =>
                   (id \in Range(req[p].executed)) <=>
                     ~\E j \in 1..(id[2] - 1) : <<id[1], j>> \in req[p].raised
              /\ Len(id) = 3 => id \notin Range(req[p].executed)
       ]_vars

\* C38 witness: process_speech is about to return after it has run a tool of
\* the first response and a chained tool, while the final response asked
\* for one more tool, which has not run.
ChainIsBoundedWitness ==
  /\ pc[Asker] = "respond"
  /\ req[Asker].k > Len(req[Asker].response.content)
  /\ \E id \in req[Asker].requested :
       /\ Len(id) = 3
       /\ id \notin Range(req[Asker].executed)
       /\ <<id[1]>> \in Range(req[Asker].executed)
       /\ <<id[1], id[2]>> \in Range(req[Asker].executed)

\* C39: once /call-ended has been handled for a call id and its metrics are
\* saved, neither conversations nor active_trackers holds an entry for that
\* call id, and no later request other than a new /voice brings one back: a
\* late /process-speech for that call id does not re-create the entry.
EndedCallStaysGone ==
  [][\A c \in { call_sid_of(form) : form \in Forms } :
       /\ (HasMetrics(call_metrics', c) /\ ~HasMetrics(call_metrics, c)) =>
            /\ c \notin DOMAIN conversations'
            /\ c \notin DOMAIN active_trackers'
       /\ ( /\ HasMetrics(call_metrics, c)
            /\ c \notin DOMAIN conversations
            /\ c \notin DOMAIN active_trackers
            /\ \A p \in Procs : ~(Returns(p) /\ ret'[p].op = "voice") ) =>
            /\ c \notin DOMAIN conversations'
            /\ c \notin DOMAIN active_trackers'
    ]_vars

====
